---- MODULE Spec2Model ----
(***************************************************************************)
(* SQL-WatchPup: the data-quality test runner (DataQualityFramework) and   *)
(* the SQL lineage mapper (SQLLineageMapper), modelled as state machines.  *)
(*                                                                         *)
(* SpecDQ       one call of DataQualityFramework.run_tests                 *)
(*              (src/data_quality/run_dq_tests.py; run_tests of            *)
(*              src/quality_checks/quality_check.py has the same steps).   *)
(* SpecColumn   run_tests on one table with one column entry and one      *)
(*              test, for every content of the column.                     *)
(* SpecMain     one run of main() of run_dq_tests.py: the constructor,     *)
(*              then run_tests, on configurations that may be malformed.   *)
(* SpecExtract  one call of SQLLineageMapper.extract_parent_tables, of     *)
(*              src/data_lineage/generate_lineage.py (structured parser,   *)
(*              then regular expressions) or of                            *)
(*              src/lineage_mapper/lineage.py (regular expressions only).  *)
(* SpecScan     one scan of the SQL folder: process_sql_files of           *)
(*              generate_lineage.py, and what build_lineage does after it, *)
(*              or build_lineage_map of lineage.py.                        *)
(* SpecComments one call of remove_comments of generate_lineage.py.        *)
(* SpecMermaid  generate_mermaid on a relationship set, then               *)
(*              parse_mermaid_flowchart on its text.                       *)
(***************************************************************************)
EXTENDS Integers, Sequences, FiniteSets, TLC

VARIABLES
    \* ---- data-quality runner ----
    table_configs,   \* self.table_configs: the (identifier, config) items, in dict order
    pc,              \* position of run_tests
    ti, ci, xi,      \* indices of the table, column and test loops (1-based)
    column_results,  \* the list of results of the column being tested
    table_results,   \* qualified table -> (column name -> list of results)
    db,              \* the connector self.db: connection state, counters, database
    log,             \* history of the test executions, in execution order
    summary,         \* the statistics computed by _print_summary_statistics
    \* ---- lineage mapper: one scan of the SQL folder ----
    mapper,          \* which SQLLineageMapper runs: "generate_lineage" or "lineage_mapper"
    file_schema,     \* self.file_schema (generate_lineage.py only)
    sql_files,       \* the files of the folder, in the order rglob lists them
    fi,              \* index of the file loop (1-based)
    relationships,   \* self.relationships: a set of (source, target) pairs
    scan_pc,         \* position of the scan
    scan_log,        \* what the scan did with each file, in processing order
    build,           \* build_lineage: its position, and what it generated and saved
    \* ---- lineage mapper: one call of extract_parent_tables ----
    unit,            \* the SQL unit the text was written from
    content,         \* the text passed to extract_parent_tables
    parser,          \* what LineageRunner does with the text
    outcome,         \* what the call gave its caller
    ex_pc            \* position of the call

dqvars == <<table_configs, pc, ti, ci, xi, column_results, table_results, db, log, summary>>

scanvars == <<mapper, file_schema, sql_files, fi, relationships, scan_pc, scan_log, build>>

exvars == <<unit, content, parser, outcome, ex_pc>>

vars == <<dqvars, scanvars, exvars>>

\* the variables of a part of the program that is not running
IdleDQ ==
    /\ table_configs = << >> /\ pc = "idle" /\ ti = 0 /\ ci = 0 /\ xi = 0
    /\ column_results = << >> /\ table_results = << >> /\ db = << >>
    /\ log = << >> /\ summary = << >>

IdleScan ==
    /\ file_schema = << >> /\ sql_files = << >> /\ fi = 0
    /\ relationships = {} /\ scan_pc = "idle" /\ scan_log = << >> /\ build = << >>

IdleExtract ==
    /\ unit = << >> /\ content = << >> /\ parser = << >>
    /\ outcome = << >> /\ ex_pc = "idle"

----------------------------------------------------------------------------
(* Bounds and input alphabets of the data-quality model.                    *)

\* longest list of tests of one column
MaxTests == 2

\* A cell of a database column: SQL NULL, or a value with its VARCHAR cast.
NULL == [null |-> TRUE, text |-> ""]
V(s) == [null |-> FALSE, text |-> s]

\* The database the connector is attached to: qualified table -> column -> rows.
\* main.users exists; main.orders does not (every query on it raises).
Database ==
    ( <<"main", "users">> :>
        ( "id"    :> << V("1"), V("22"), V("3") >> @@
          "email" :> << V("a"), NULL, V("a"), V("bb") >> ) )

\* self.db.default_schema of the DuckDB connector
default_schema == "main"

\* Table identifiers as the parts of table_identifier.split('.')
TableKeyLists ==
    { << <<"users">> >>,
      << <<"main", "orders">> >>,
      << <<"users">>, <<"main", "users">> >>,
      << <<"main", "orders">>, <<"users">> >>,
      << <<"main", "users">>, <<"main", "orders">> >> }

\* The 'name' values of the column entries of one table
ColumnNameLists ==
    { << >>, <<"id">>, <<"id", "email">>, <<"ghost", "id">>, <<"id", "id">> }

\* Test parameters: None, a list of accepted values, or an integer
NoParams == [kind |-> "none", values |-> {}, n |-> 0]
ListParams(vs) == [kind |-> "list", values |-> vs, n |-> 0]
IntParams(k) == [kind |-> "int", values |-> {}, n |-> k]

\* `not params` of Python: None, the empty list and 0 are falsy
Falsy(params) ==
    \/ params.kind = "none"
    \/ params.kind = "list" /\ params.values = {}
    \/ params.kind = "int" /\ params.n = 0

\* A test entry of a column: a bare string, or a one-key mapping {name: params}
StrTest(name) == [isDict |-> FALSE, name |-> name, params |-> NoParams]
DictTest(name, params) == [isDict |-> TRUE, name |-> name, params |-> params]

TestEntries ==
    { StrTest("no_nulls"), StrTest("unique"),
      DictTest("accepted_values", ListParams({"a", "bb"})),
      DictTest("max_len", IntParams(1)),
      StrTest("no_b"), StrTest("broken_template"),
      StrTest("not_a_test") }

\* self.custom_tests: the templates loaded from the custom tests directory.
\* A template either fails to render, or selects the rows whose text is in `selects`.
custom_tests ==
    ( "no_b"            :> [renders |-> TRUE,  selects |-> {"bb"}] @@
      "broken_template" :> [renders |-> FALSE, selects |-> {}] )

BuiltinTests == {"no_nulls", "unique", "accepted_values", "max_len"}

SeqsUpTo(S, n) == UNION { [1..k -> S] : k \in 0..n }

----------------------------------------------------------------------------
(* The connector: execute_query on the database.                            *)

Occurrences(rows, v) == Cardinality({ i \in 1..Len(rows) : rows[i] = v })

\* groups of GROUP BY column HAVING COUNT(*) > 2
DuplicateGroups_of_three(rows) ==
    { rows[i] : i \in { j \in 1..Len(rows) : Occurrences(rows, rows[j]) > 2 } }

\* groups of GROUP BY column HAVING COUNT(*) > 1 (NULLs form one group)
DuplicateGroups(rows) ==
    { rows[i] : i \in { j \in 1..Len(rows) : Occurrences(rows, rows[j]) > 1 } }

\* A query either raises (unknown table or column, closed connection) or
\* returns a frame; `value` is its first cell, `nrows` its number of rows.
Raised == [raised |-> TRUE, value |-> 0, nrows |-> 0]
Frame(value, nrows) == [raised |-> FALSE, value |-> value, nrows |-> nrows]

\* the database `data` has the table and the table has the column
TableHasColumn(data, qualified_table, column) ==
    /\ qualified_table \in DOMAIN data
    /\ column \in DOMAIN data[qualified_table]

\* the same of the database the connector self.db is attached to
HasColumn(qualified_table, column) == TableHasColumn(db.data, qualified_table, column)

execute_query(conn, query) ==
    IF ~conn.open \/ ~TableHasColumn(conn.data, query.table, query.column) THEN Raised
    ELSE LET rows == conn.data[query.table][query.column] IN
         CASE query.kind = "null_count" ->
                Frame(Cardinality({ i \in 1..Len(rows) : rows[i].null }), 1)
           [] query.kind = "duplicate_count" ->
                Frame(Cardinality(DuplicateGroups(rows)), 1)
           [] query.kind = "invalid_count" ->
                Frame(Cardinality({ i \in 1..Len(rows) :
                          ~rows[i].null /\ rows[i].text \notin query.values }), 1)
           [] query.kind = "oversize_count" ->
                Frame(Cardinality({ i \in 1..Len(rows) :
                          ~rows[i].null /\ Len(rows[i].text) > query.n }), 1)
           [] query.kind = "custom" ->
                LET hit == { i \in 1..Len(rows) :
                               ~rows[i].null /\ rows[i].text \in query.values }
                IN Frame(0, Cardinality(hit))

Query(kind, qualified_table, column, values, n) ==
    [kind |-> kind, table |-> qualified_table, column |-> column,
     values |-> values, n |-> n]

----------------------------------------------------------------------------
(* DataQualityFramework: the test functions.                                *)

\* What one call of a _run_*_test function did: the boolean it returned,
\* whether an exception was raised inside it, how many queries it sent, whether
\* it logged a warning, and whether the exception left the function.
Returned(result, queries) ==
    [result |-> result, raised |-> FALSE, queries |-> queries,
     warned |-> FALSE, propagated |-> FALSE]
Raises(queries) ==
    [result |-> FALSE, raised |-> TRUE, queries |-> queries,
     warned |-> FALSE, propagated |-> TRUE]
Warned ==
    [result |-> FALSE, raised |-> FALSE, queries |-> 0,
     warned |-> TRUE, propagated |-> FALSE]

\* `except Exception as e: ... return False`
ExceptReturnFalse(o) ==
    IF o.raised THEN [o EXCEPT !.result = FALSE, !.propagated = FALSE] ELSE o

\* int(result.iloc[0].iloc[0]) <= 1
CountIsZero_or_one(r) == IF r.raised THEN Raises(1) ELSE Returned(r.value <= 1, 1)

\* int(result.iloc[0].iloc[0]) == 0
CountIsZero(r) == IF r.raised THEN Raises(1) ELSE Returned(r.value = 0, 1)

\* the try block of _run_default_test
DefaultTestTry(conn, schema, table, column, test, params) ==
    LET qualified_table == <<schema, table>> IN
    CASE test = "no_nulls" ->
           CountIsZero(execute_query(conn,
               Query("null_count", qualified_table, column, {}, 0)))
      [] test = "unique" ->
           CountIsZero(execute_query(conn,
               Query("duplicate_count", qualified_table, column, {}, 0)))
      [] test = "accepted_values" ->
           IF Falsy(params) THEN Returned(FALSE, 0)
           ELSE IF params.kind # "list" THEN Raises(0)
           ELSE CountIsZero(execute_query(conn,
               Query("invalid_count", qualified_table, column, params.values, 0)))
      [] test = "max_len" ->
           IF Falsy(params) THEN Returned(FALSE, 0)
           ELSE IF params.kind # "int" THEN Raises(1)
           ELSE CountIsZero(execute_query(conn,
               Query("oversize_count", qualified_table, column, {}, params.n)))
      [] OTHER -> Warned

_run_default_test_no_except(conn, schema, table, column, test, params) ==
    DefaultTestTry(conn, schema, table, column, test, params)

_run_default_test(conn, schema, table, column, test, params) ==
    ExceptReturnFalse(DefaultTestTry(conn, schema, table, column, test, params))

\* the test passes whatever rows the query returns
CustomTestTry_any_rows(conn, schema, table, column, test) ==
    IF ~custom_tests[test].renders THEN Raises(0)
    ELSE LET r == execute_query(conn,
                 Query("custom", <<schema, table>>, column, custom_tests[test].selects, 0))
         IN IF r.raised THEN Raises(1) ELSE Returned(TRUE, 1)

\* the try block of _run_custom_test
CustomTestTry(conn, schema, table, column, test) ==
    IF ~custom_tests[test].renders THEN Raises(0)
    ELSE LET r == execute_query(conn,
                 Query("custom", <<schema, table>>, column, custom_tests[test].selects, 0))
         IN IF r.raised THEN Raises(1) ELSE Returned(r.nrows = 0, 1)

\* without the `test not in self.custom_tests` guard the lookup raises
\* KeyError inside the try block: an error is logged instead of the warning
_run_custom_test_no_guard(conn, schema, table, column, test) ==
    ExceptReturnFalse(IF test \notin DOMAIN custom_tests THEN Raises(0)
                      ELSE CustomTestTry(conn, schema, table, column, test))

_run_custom_test(conn, schema, table, column, test) ==
    IF test \notin DOMAIN custom_tests THEN Warned
    ELSE ExceptReturnFalse(CustomTestTry(conn, schema, table, column, test))

_parse_table_identifier(parts) ==
    IF Len(parts) = 2 THEN <<parts[1], parts[2]>>
    ELSE <<default_schema, parts[1]>>

\* DatabaseConnector.close
close(conn) ==
    IF conn.open THEN [conn EXCEPT !.open = FALSE, !.closeCalls = @ + 1]
    ELSE [conn EXCEPT !.closeCalls = @ + 1]

----------------------------------------------------------------------------
(* DataQualityFramework._print_summary_statistics: the counts it collects.  *)

RECURSIVE SumOver(_, _, _)
SumOver(S, f, field) ==
    IF S = {} THEN 0
    ELSE LET x == CHOOSE y \in S : TRUE
         IN f[x][field] + SumOver(S \ {x}, f, field)

sum(results) == Cardinality({ i \in 1..Len(results) : results[i] })

\* 'failed': column_total
ColumnStats_failed_is_total(results) ==
    [total |-> Len(results), passed |-> sum(results), failed |-> Len(results)]

ColumnStats(results) ==
    [total |-> Len(results), passed |-> sum(results),
     failed |-> Len(results) - sum(results)]

TableStats(columns) ==
    LET column_stats == [c \in DOMAIN columns |-> ColumnStats(columns[c])]
        table_total == SumOver(DOMAIN columns, column_stats, "total")
        table_passed == SumOver(DOMAIN columns, column_stats, "passed")
    IN [total |-> table_total, passed |-> table_passed,
        failed |-> table_total - table_passed, columns |-> column_stats]

_print_summary_statistics(results) ==
    LET table_stats == [t \in DOMAIN results |-> TableStats(results[t])]
        total_tests == SumOver(DOMAIN results, table_stats, "total")
        total_passed == SumOver(DOMAIN results, table_stats, "passed")
    IN [total |-> total_tests, passed |-> total_passed,
        failed |-> total_tests - total_passed, tables |-> table_stats]

NoSummary == [total |-> 0, passed |-> 0, failed |-> 0, tables |-> << >>]

----------------------------------------------------------------------------
(* DataQualityFramework.run_tests.                                          *)

Config == table_configs[ti]
Columns == Config.columns
ColumnConfig == Columns[ci]
Tests == ColumnConfig.tests
Schema == _parse_table_identifier(Config.key)[1]
Table == _parse_table_identifier(Config.key)[2]
QualifiedTable == <<Schema, Table>>

\* The configurations: every table of `keys` lists the columns `cols`, every
\* column lists the tests `tests`.
MakeConfigs(keys, cols, tests) ==
    [i \in 1..Len(keys) |->
        [key |-> keys[i], mapping |-> TRUE,
         columns |-> [j \in 1..Len(cols) |-> [name |-> cols[j], tests |-> tests]]]]

\* a key that a mapping does not have: the 'name' of a column entry written
\* without it, the first key of the test mapping {}
NoName == "<no key>"

\* the test entry {}
EmptyMapping == [isDict |-> TRUE, name |-> NoName, params |-> NoParams]

\* a table entry whose value is a list, not a mapping
NotAMapping(key) == [key |-> key, mapping |-> FALSE, columns |-> << >>]

InitDQ ==
    /\ \E keys \in TableKeyLists, cols \in ColumnNameLists,
          tests \in SeqsUpTo(TestEntries, MaxTests) :
          table_configs = MakeConfigs(keys, cols, tests)
    /\ pc = "table"
    /\ ti = 1 /\ ci = 1 /\ xi = 1
    /\ column_results = << >>
    /\ table_results = << >>
    /\ db = [open |-> TRUE, closeCalls |-> 0, queries |-> 0, data |-> Database]
    /\ log = << >>
    /\ summary = NoSummary
    /\ mapper = "none" /\ IdleScan /\ IdleExtract

\* for table_identifier, config in self.table_configs.items(): ... table_results[q] = {}
EnterTable ==
    /\ pc = "table" /\ ti <= Len(table_configs)
    /\ table_results' =
         [t \in DOMAIN table_results \cup {QualifiedTable} |->
             IF t = QualifiedTable THEN << >> ELSE table_results[t]]
    /\ ci' = 1
    /\ pc' = "column"
    /\ UNCHANGED <<table_configs, ti, xi, column_results, db, log, summary>>
    /\ UNCHANGED <<scanvars, exvars>>

\* for column_config in config.get('columns', []): ... column_results = []
EnterColumn ==
    /\ pc = "column" /\ Config.mapping /\ ci <= Len(Columns)
    /\ ColumnConfig.name # NoName
    /\ column_results' = << >>
    /\ xi' = 1
    /\ pc' = "test"
    /\ UNCHANGED <<table_configs, ti, ci, table_results, db, log, summary>>
    /\ UNCHANGED <<scanvars, exvars>>

\* the loop passes over the test without calling it
StartTest_skips ==
    /\ pc = "test" /\ xi <= Len(Tests)
    /\ xi' = xi + 1
    /\ UNCHANGED <<table_configs, pc, ti, ci, column_results, table_results, db, log, summary>>
    /\ UNCHANGED <<scanvars, exvars>>

\* for test in column_config.get('tests', []): the test is about to be called
StartTest ==
    /\ pc = "test" /\ xi <= Len(Tests)
    /\ pc' = "exec"
    /\ UNCHANGED <<table_configs, ti, ci, xi, column_results, table_results, db, log, summary>>
    /\ UNCHANGED <<scanvars, exvars>>

\* the call of the test function returned `o`, or the exception left run_tests
RecordResult(test_name, o) ==
    IF o.propagated
    THEN /\ pc' = "aborted"
         /\ db' = [db EXCEPT !.queries = @ + o.queries]
         /\ UNCHANGED <<table_configs, ti, ci, xi, column_results, table_results, log, summary>>
         /\ UNCHANGED <<scanvars, exvars>>
    ELSE /\ column_results' = Append(column_results, o.result)
         /\ db' = [db EXCEPT !.queries = @ + o.queries]
         /\ log' = Append(log, [entry |-> <<ti, ci, xi>>, name |-> test_name,
                                result |-> o.result, raised |-> o.raised,
                                queries |-> o.queries, warned |-> o.warned,
                                connOpen |-> db.open])
         /\ xi' = xi + 1
         /\ pc' = "test"
         /\ UNCHANGED <<table_configs, ti, ci, table_results, summary>>
         /\ UNCHANGED <<scanvars, exvars>>

RunCustomTest ==
    /\ pc = "exec" /\ Tests[xi] # EmptyMapping
    /\ Tests[xi].name \notin BuiltinTests
    /\ RecordResult(Tests[xi].name,
           _run_custom_test(db, Schema, Table, ColumnConfig.name, Tests[xi].name))

RunDefaultTest ==
    /\ pc = "exec"
    /\ Tests[xi].name \in BuiltinTests
    /\ RecordResult(Tests[xi].name,
           _run_default_test(db, Schema, Table, ColumnConfig.name, Tests[xi].name,
               IF Tests[xi].isDict THEN Tests[xi].params ELSE NoParams))

\* table_results[qualified_table][column_name] = column_results
LeaveColumn ==
    /\ pc = "test" /\ xi > Len(Tests)
    /\ table_results' =
         [table_results EXCEPT ![QualifiedTable] =
             [c \in DOMAIN @ \cup {ColumnConfig.name} |->
                 IF c = ColumnConfig.name THEN column_results ELSE @[c]]]
    /\ ci' = ci + 1
    /\ pc' = "column"
    /\ UNCHANGED <<table_configs, ti, xi, column_results, db, log, summary>>
    /\ UNCHANGED <<scanvars, exvars>>

LeaveTable ==
    /\ pc = "column" /\ Config.mapping /\ ci > Len(Columns)
    /\ ti' = ti + 1
    /\ pc' = "table"
    /\ UNCHANGED <<table_configs, ci, xi, column_results, table_results, db, log, summary>>
    /\ UNCHANGED <<scanvars, exvars>>

\* the run ends without closing the connection
FinishNoClose ==
    /\ pc = "table" /\ ti > Len(table_configs)
    /\ summary' = _print_summary_statistics(table_results)
    /\ pc' = "done"
    /\ UNCHANGED <<table_configs, ti, ci, xi, column_results, table_results, db, log>>
    /\ UNCHANGED <<scanvars, exvars>>

\* self._print_summary_statistics(table_results); self.db.close()
Finish ==
    /\ pc = "table" /\ ti > Len(table_configs)
    /\ summary' = _print_summary_statistics(table_results)
    /\ db' = close(db)
    /\ pc' = "done"
    /\ UNCHANGED <<table_configs, ti, ci, xi, column_results, table_results, log>>
    /\ UNCHANGED <<scanvars, exvars>>

NextDQ ==
    \/ EnterTable \/ EnterColumn \/ StartTest
    \/ RunCustomTest \/ RunDefaultTest
    \/ LeaveColumn \/ LeaveTable \/ Finish

SpecDQ == InitDQ /\ [][NextDQ]_vars

----------------------------------------------------------------------------
(* SpecMain: one run of main(): the constructor of DataQualityFramework    *)
(* (connect, load the custom tests, load the table configs), then          *)
(* run_tests, on configurations that may have a malformed entry             *)

\* what can be wrong with the last table entry of the loaded configuration
Damages ==
    {"none", "table entry not a mapping", "column entry without name", "empty test mapping"}

LastColumn(config) == config.columns[Len(config.columns)]

\* the configuration with its last table entry damaged
Damaged(configs, damage) ==
    LET last == configs[Len(configs)]
    IN CASE damage = "table entry not a mapping" ->
              [configs EXCEPT ![Len(configs)] = NotAMapping(last.key)]
         [] damage = "column entry without name" ->
              [configs EXCEPT ![Len(configs)].columns[Len(last.columns)].name = NoName]
         [] damage = "empty test mapping" ->
              [configs EXCEPT ![Len(configs)].columns[Len(last.columns)].tests =
                                  Append(LastColumn(last).tests, EmptyMapping)]
         [] OTHER -> configs

\* what the YAML files of the config directory hold: nothing, or tables with
\* columns and tests, the last table entry possibly malformed
MainConfigs ==
    { << >> } \cup
    { Damaged(MakeConfigs(keys, cols, tests), damage) :
        keys \in { << <<"users">> >>, << <<"users">>, <<"main", "orders">> >> },
        cols \in { <<"id">>, <<"id", "email">> },
        tests \in SeqsUpTo({StrTest("no_nulls"), StrTest("no_b")}, MaxTests),
        damage \in Damages }

InitMain ==
    /\ table_configs \in MainConfigs
    /\ pc = "connect"
    /\ ti = 1 /\ ci = 1 /\ xi = 1
    /\ column_results = << >>
    /\ table_results = << >>
    /\ db = [open |-> FALSE, closeCalls |-> 0, queries |-> 0, data |-> Database]
    /\ log = << >>
    /\ summary = NoSummary
    /\ mapper = "none" /\ IdleScan /\ IdleExtract

\* a step of the constructor or of run_tests that changes pc, and db to conn
Goes(to, conn) ==
    /\ pc' = to
    /\ db' = conn
    /\ UNCHANGED <<table_configs, ti, ci, xi, column_results, table_results, log, summary>>
    /\ UNCHANGED <<scanvars, exvars>>

\* self.db = self._initialize_db_connector(): connect() opens the connection
\* or raises
InitializeDbConnector ==
    /\ pc = "connect"
    /\ \/ Goes("load_custom_tests", [db EXCEPT !.open = TRUE])
       \/ Goes("exited", db)

\* self.custom_tests = self._load_custom_tests(): os.listdir may raise; a
\* file that cannot be read is logged
LoadCustomTests ==
    /\ pc = "load_custom_tests"
    /\ \/ Goes("load_table_configs", db)
       \/ Goes("exited", db)

\* self.table_configs = self._load_table_configs(): FileNotFoundError without
\* the directory or a named file, ValueError when nothing was loaded; main()
\* then calls run_tests
LoadTableConfigs ==
    /\ pc = "load_table_configs"
    /\ \/ table_configs # << >> /\ Goes("table", db)
       \/ Goes("exited", db)

\* config.get('columns', []) on a table entry that is not a mapping:
\* AttributeError
ConfigGetRaises ==
    /\ pc = "column" /\ ~Config.mapping
    /\ Goes("aborted", db)

\* column_config['name'] on a column entry without 'name': KeyError
ColumnNameRaises ==
    /\ pc = "column" /\ Config.mapping /\ ci <= Len(Columns)
    /\ ColumnConfig.name = NoName
    /\ Goes("aborted", db)

\* list(test.keys())[0] on the test mapping {}: IndexError
TestKeyRaises ==
    /\ pc = "exec" /\ Tests[xi] = EmptyMapping
    /\ Goes("aborted", db)

\* main(): except Exception: ... sys.exit(1)
MainExits ==
    /\ pc = "aborted"
    /\ Goes("exited", db)

NextMain ==
    \/ InitializeDbConnector \/ LoadCustomTests \/ LoadTableConfigs
    \/ NextDQ
    \/ ConfigGetRaises \/ ColumnNameRaises \/ TestKeyRaises \/ MainExits

\* main() runs on until it returns or exits
SpecMain == InitMain /\ [][NextMain]_vars /\ WF_vars(NextMain)

----------------------------------------------------------------------------
(* SpecColumn: run_tests on a table main.t with one column entry and one   *)
(* test, for every content of the column c of the table.                   *)

\* most rows of the column
MaxRows == 3
\* greatest parameter of max_len
MaxLen == 2

Cells == {NULL, V(""), V("a"), V("bb")}
ColumnContents == SeqsUpTo(Cells, MaxRows)

\* the database with the table main.t and its column c
OneColumn(rows) == ( <<"main", "t">> :> ( "c" :> rows ) )

ColumnTests ==
    { StrTest("no_nulls"), StrTest("unique"), StrTest("no_b"), StrTest("broken_template") }
      \cup { DictTest("accepted_values", ListParams(vs)) : vs \in SUBSET {"a", "bb"} }
      \cup { DictTest("max_len", IntParams(n)) : n \in 0..MaxLen }

\* the column entry names the column c, or a column the table does not have
InitColumn ==
    /\ \E rows \in ColumnContents, name \in {"c", "ghost"}, test \in ColumnTests :
          /\ table_configs = MakeConfigs(<< <<"main", "t">> >>, << name >>, << test >>)
          /\ db = [open |-> TRUE, closeCalls |-> 0, queries |-> 0, data |-> OneColumn(rows)]
    /\ pc = "table"
    /\ ti = 1 /\ ci = 1 /\ xi = 1
    /\ column_results = << >>
    /\ table_results = << >>
    /\ log = << >>
    /\ summary = NoSummary
    /\ mapper = "none" /\ IdleScan /\ IdleExtract

SpecColumn == InitColumn /\ [][NextDQ]_vars

----------------------------------------------------------------------------
(* Properties of run_tests.                                                 *)

\* the configured (table, column, test) entries, by position
Entries ==
    UNION { UNION { { <<t, c, x>> : x \in 1..Len(table_configs[t].columns[c].tests) }
                    : c \in 1..Len(table_configs[t].columns) }
            : t \in 1..Len(table_configs) }

\* configuration order: tables, then columns, then tests
Before(e, f) ==
    \/ e[1] < f[1]
    \/ e[1] = f[1] /\ e[2] < f[2]
    \/ e[1] = f[1] /\ e[2] = f[2] /\ e[3] < f[3]

Executed == { log[i].entry : i \in DOMAIN log }

EntryTable(e) == _parse_table_identifier(table_configs[e[1]].key)
EntryColumn(e) == table_configs[e[1]].columns[e[2]].name
EntryTest(e) == table_configs[e[1]].columns[e[2]].tests[e[3]]

\* the entry's test sends a query, and the query raises on this database
QueryRaises(e) ==
    /\ ~HasColumn(EntryTable(e), EntryColumn(e))
    /\ \/ EntryTest(e).name \in {"no_nulls", "unique"}
       \/ EntryTest(e).name \in {"accepted_values", "max_len"} /\ ~Falsy(EntryTest(e).params)
       \/ EntryTest(e).name \in DOMAIN custom_tests /\ custom_tests[EntryTest(e).name].renders

UnknownTest(name) == name \notin BuiltinTests /\ name \notin DOMAIN custom_tests

Status(e) ==
    IF \E i \in DOMAIN log : log[i].entry = e
    THEN LET i == CHOOSE j \in DOMAIN log : log[j].entry = e
         IN IF log[i].result THEN "PASSED" ELSE "FAILED"
    ELSE IF pc = "exec" /\ e = <<ti, ci, xi>> THEN "RUNNING"
    ELSE "PENDING"

\* C1: a test whose query raises is recorded as failed, the exception never
\* leaves run_tests, and the run still executes every configured entry.
C1_QueryErrorRecordedAsFailed ==
    /\ pc # "aborted"
    /\ \A i \in DOMAIN log :
          /\ log[i].raised => ~log[i].result
          /\ QueryRaises(log[i].entry) => log[i].raised /\ ~log[i].result
    /\ pc = "done" => Executed = Entries

\* a finished run in which a query raised and a later test still ran and passed
C1_Witness ==
    /\ pc = "done"
    /\ \E i, j \in DOMAIN log :
          /\ i < j
          /\ QueryRaises(log[i].entry) /\ log[i].queries = 1 /\ ~log[i].result
          /\ log[j].entry[1] > log[i].entry[1]
          /\ log[j].result

\* C2: all queries of a run go to the one connection while it is open, and
\* close is called on it exactly once, by the step that ends the run, after
\* every configured test has executed.
C2_ConnectionClosedOnceAtEnd ==
    /\ db.closeCalls <= 1
    /\ (db.closeCalls = 1) <=> (pc = "done")
    /\ db.open <=> (pc # "done")
    /\ \A i \in DOMAIN log : log[i].connOpen
    /\ pc = "done" => Executed = Entries

\* a finished run with a passing, a failing and an erroring test, closed once
C2_Witness ==
    /\ pc = "done" /\ db.closeCalls = 1 /\ ~db.open
    /\ \E i, j, k \in DOMAIN log :
          log[i].result /\ (~log[j].result /\ ~log[j].raised) /\ log[k].raised

\* the position of run_tests in its three nested loops, as a tuple that grows
\* lexicographically along the control flow
Position ==
    CASE pc = "table"  -> <<ti, 0, 0, 0, 0, 0>>
      [] pc = "column" -> <<ti, 1, ci, 0, 0, 0>>
      [] pc = "test"   -> <<ti, 1, ci, 1, xi, 0>>
      [] pc = "exec"   -> <<ti, 1, ci, 1, xi, 1>>
      [] OTHER         -> <<ti, 2, 0, 0, 0, 0>>

LexLess(a, b) ==
    \E k \in 1..Len(a) : a[k] < b[k] /\ \A j \in 1..(k - 1) : a[j] = b[j]

C3_Invariant ==
    /\ Executed \subseteq Entries
    /\ \A i, j \in DOMAIN log : i < j => Before(log[i].entry, log[j].entry)
    /\ pc = "exec" =>
          /\ <<ti, ci, xi>> \in Entries \ Executed
          /\ \A e \in Entries : Before(e, <<ti, ci, xi>>) <=> e \in Executed
    /\ \A e \in Entries : Status(e) \in {"PENDING", "RUNNING", "PASSED", "FAILED"}
    /\ Cardinality({ e \in Entries : Status(e) = "RUNNING" }) <= 1
    /\ pc = "done" => \A e \in Entries : Status(e) \in {"PASSED", "FAILED"}
    \* the run can always take a step until it is done, within bounded loops
    /\ pc = "done" \/ ENABLED NextDQ
    /\ ti <= Len(table_configs) + 1
    /\ pc \in {"column", "test", "exec"} => ci <= Len(Columns) + 1
    /\ pc \in {"test", "exec"} => xi <= Len(Tests) + 1

C3_Step ==
    /\ \A e \in Entries :
          \/ Status(e)' = Status(e)
          \/ Status(e) = "PENDING" /\ Status(e)' = "RUNNING"
          \/ Status(e) = "RUNNING" /\ Status(e)' \in {"PASSED", "FAILED"}
    \* every step advances the position: no step is repeated for ever
    /\ LexLess(Position, Position')

\* C3: every configured entry goes PENDING -> RUNNING -> PASSED or FAILED, once,
\* in configuration order; a terminal result never changes; the run terminates
\* (every step advances a bounded position and a step exists until the run is
\* done) with every entry terminal.
C3_EntryStateMachine ==
    /\ [] C3_Invariant
    /\ [][C3_Step]_vars

\* a finished run of two tables whose entries all reached a terminal state
C3_Witness ==
    /\ pc = "done"
    /\ Cardinality(Entries) >= 4
    /\ \E e, f \in Entries : Status(e) = "PASSED" /\ Status(f) = "FAILED"

\* C4: executing a test whose name is neither built in nor a loaded custom test
\* records FAILED with a warning, sends no query, and leaves the run at the
\* next test of the column.
C4_UnknownTestFails ==
    [][ (pc = "exec" /\ UnknownTest(Tests[xi].name)) =>
           /\ db'.queries = db.queries
           /\ pc' = "test" /\ xi' = xi + 1 /\ ti' = ti /\ ci' = ci
           /\ Len(log') = Len(log) + 1
           /\ log'[Len(log')].entry = <<ti, ci, xi>>
           /\ ~log'[Len(log')].result
           /\ log'[Len(log')].warned
           /\ log'[Len(log')].queries = 0
           /\ column_results' = Append(column_results, FALSE) ]_vars

\* a finished run in which an unknown test was followed by a test that queried
C4_Witness ==
    /\ pc = "done"
    /\ \E i, j \in DOMAIN log :
          /\ i < j
          /\ UnknownTest(log[i].name) /\ ~log[i].result /\ log[i].warned
          /\ log[j].queries = 1

\* the sum of the counts `field` of the entries of stats
Total(stats, field) == SumOver(DOMAIN stats, stats, field)

AddsUp(counts) ==
    /\ counts.passed + counts.failed = counts.total
    /\ counts.passed >= 0 /\ counts.failed >= 0

\* C20: in the summary computed at the end of the run, passed + failed = total
\* for every column, every table and the whole run, the total and passed
\* counts of a table are the sums over its columns, and the total and passed
\* counts of the run are the sums over the tables.
C20_SummaryCountsAddUp ==
    pc = "done" =>
        /\ AddsUp(summary)
        /\ summary.total = Total(summary.tables, "total")
        /\ summary.passed = Total(summary.tables, "passed")
        /\ \A t \in DOMAIN summary.tables :
              /\ AddsUp(summary.tables[t])
              /\ summary.tables[t].total = Total(summary.tables[t].columns, "total")
              /\ summary.tables[t].passed = Total(summary.tables[t].columns, "passed")
              /\ \A c \in DOMAIN summary.tables[t].columns :
                    AddsUp(summary.tables[t].columns[c])

\* the summary of a run over two tables of two columns each, with passed and
\* failed tests
C20_Witness ==
    /\ pc = "done"
    /\ Cardinality(DOMAIN summary.tables) = 2
    /\ \A t \in DOMAIN summary.tables : Cardinality(DOMAIN summary.tables[t].columns) = 2
    /\ summary.total = 8 /\ summary.passed > 0 /\ summary.failed > 0

\* C29: the total of the summary is the number of tests the run executed,
\* also when two table identifiers give the same schema.table or a table
\* lists a column name twice: no result is lost before the counts are taken.
C29_TotalIsNumberOfExecutions ==
    pc = "done" => summary.total = Len(log)

\* C30: once the framework has opened the database connection, the
\* connection is eventually closed, also when the constructor fails after
\* the connection or a malformed configuration entry aborts run_tests.
C30_ConnectionEventuallyClosed ==
    [](db.open => <>(~db.open))

----------------------------------------------------------------------------
(* Text.  A Python str is modelled as the sequence of its characters, so    *)
(* that the regular expressions of the lineage mappers are computed on the  *)
(* characters as re computes them.                                          *)

LowerLetters ==
    {"a", "b", "c", "d", "e", "f", "g", "h", "i", "j", "k", "l", "m",
     "n", "o", "p", "q", "r", "s", "t", "u", "v", "w", "x", "y", "z"}
UpperLetters ==
    {"A", "B", "C", "D", "E", "F", "G", "H", "I", "J", "K", "L", "M",
     "N", "O", "P", "Q", "R", "S", "T", "U", "V", "W", "X", "Y", "Z"}
Digits == {"0", "1", "2", "3", "4", "5", "6", "7", "8", "9"}

\* [a-zA-Z0-9_]
IsWord(c) == c \in LowerLetters \cup UpperLetters \cup Digits \cup {"_"}
\* [a-zA-Z0-9_\-]
IsWordOrHyphen(c) == IsWord(c) \/ c = "-"
\* \s
IsSpace(c) == c \in {" ", "\n", "\t"}
\* [^}]
IsNotCloseBrace(c) == c # "}"

\* str.lower(), character by character
LowerChar(c) ==
    CASE c = "A" -> "a" [] c = "B" -> "b" [] c = "C" -> "c" [] c = "D" -> "d"
      [] c = "E" -> "e" [] c = "F" -> "f" [] c = "G" -> "g" [] c = "H" -> "h"
      [] c = "I" -> "i" [] c = "J" -> "j" [] c = "K" -> "k" [] c = "L" -> "l"
      [] c = "M" -> "m" [] c = "N" -> "n" [] c = "O" -> "o" [] c = "P" -> "p"
      [] c = "Q" -> "q" [] c = "R" -> "r" [] c = "S" -> "s" [] c = "T" -> "t"
      [] c = "U" -> "u" [] c = "V" -> "v" [] c = "W" -> "w" [] c = "X" -> "x"
      [] c = "Y" -> "y" [] c = "Z" -> "z" [] OTHER -> c

lower(str) == [i \in 1..Len(str) |-> LowerChar(str[i])]

\* the characters str[i], str[i+1], ... are those of lit (case-insensitively
\* when ignorecase)
LitAt(str, i, lit, ignorecase) ==
    /\ i >= 1
    /\ i + Len(lit) - 1 <= Len(str)
    /\ \A k \in 1..Len(lit) :
          IF ignorecase THEN LowerChar(str[i + k - 1]) = LowerChar(lit[k])
          ELSE str[i + k - 1] = lit[k]

\* membership of a character in a character class of the patterns
InClass(cls, c) ==
    CASE cls = "word" -> IsWord(c)
      [] cls = "word-" -> IsWordOrHyphen(c)
      [] cls = "space" -> IsSpace(c)
      [] cls = "not}" -> IsNotCloseBrace(c)
      [] cls = "digit" -> c \in Digits
      [] cls = "lower_" -> c \in LowerLetters \cup {"_"}
      [] cls = "notnl" -> c # "\n"
      [] cls = "notdot" -> c # "."
      [] cls = "lower09_" -> c \in LowerLetters \cup Digits \cup {"_"}
      [] cls = "notquote" -> c # "\""
      [] cls = "node" -> IsWordOrHyphen(c) \/ c \in {".", "{", "}"}

\* the end (exclusive) of the longest run of characters of class cls from i:
\* where a greedy cls+ or cls* stops
RunEnd(str, i, cls) ==
    IF i > Len(str) THEN i
    ELSE CHOOSE j \in i..(Len(str) + 1) :
             /\ j = Len(str) + 1 \/ ~InClass(cls, str[j])
             /\ \A k \in i..(j - 1) : InClass(cls, str[k])

\* str[a:b] of Python with 1-based a and exclusive b
Slice(str, a, b) == SubSeq(str, a, b - 1)

\* `lit in str`
Contains(str, lit) == \E i \in 1..(Len(str) - Len(lit) + 1) : LitAt(str, i, lit, FALSE)

\* str.strip().startswith(lit)
StripStartsWith(str, lit) == LitAt(str, RunEnd(str, 1, "space"), lit, FALSE)

RECURSIVE Join(_, _)
\* sep.join(parts)
Join(parts, sep) ==
    IF parts = << >> THEN << >>
    ELSE IF Len(parts) = 1 THEN parts[1]
    ELSE parts[1] \o sep \o Join(Tail(parts), sep)

\* str.rfind('\n', 0, i) + 1 with 1-based positions: where the line of i starts
LineStart(str, i) ==
    IF \E k \in 1..(i - 1) : str[k] = "\n"
    THEN 1 + CHOOSE k \in 1..(i - 1) :
                 str[k] = "\n" /\ \A j \in (k + 1)..(i - 1) : str[j] # "\n"
    ELSE 1

----------------------------------------------------------------------------
(* Regular expressions.  A pattern is the sequence of its elements; the    *)
(* patterns of the mappers need no backtracking into a repetition, because *)
(* what follows a repetition never starts with a character of its class.   *)

None == << "None" >>
\* a literal text
Lit(s) == [k |-> "lit", s |-> s]
\* cls+ (min = 1) or cls* (min = 0), greedy; group number g, or 0 for no group
Rep(cls, min, g) == [k |-> "rep", cls |-> cls, min |-> min, g |-> g]
\* (?:a|b); an optional (a)? is Alt(a, << >>)
Alt(a, b) == [k |-> "alt", a |-> a, b |-> b]
\* $
End == [k |-> "end"]

NoGroups == << None, None, None >>
NoMatch == [matched |-> FALSE, start |-> 0, end |-> 0, groups |-> NoGroups]

\* the first alternative if it matches, the second one otherwise
OrElse(first, second) == IF first.matched THEN first ELSE second

RECURSIVE Match(_, _, _, _, _, _)
\* the match of the elements from position pos on, for a match that started
\* at position start; ignorecase is re.IGNORECASE
Match(elems, str, start, pos, groups, ignorecase) ==
    IF elems = << >>
    THEN [matched |-> TRUE, start |-> start, end |-> pos, groups |-> groups]
    ELSE CASE Head(elems).k = "lit" ->
                IF LitAt(str, pos, Head(elems).s, ignorecase)
                THEN Match(Tail(elems), str, start, pos + Len(Head(elems).s),
                           groups, ignorecase)
                ELSE NoMatch
           [] Head(elems).k = "rep" ->
                IF RunEnd(str, pos, Head(elems).cls) - pos >= Head(elems).min
                THEN Match(Tail(elems), str, start, RunEnd(str, pos, Head(elems).cls),
                           IF Head(elems).g = 0 THEN groups
                           ELSE [groups EXCEPT ![Head(elems).g] =
                                    Slice(str, pos, RunEnd(str, pos, Head(elems).cls))],
                           ignorecase)
                ELSE NoMatch
           [] Head(elems).k = "alt" ->
                OrElse(Match(Head(elems).a \o Tail(elems), str, start, pos, groups,
                             ignorecase),
                       Match(Head(elems).b \o Tail(elems), str, start, pos, groups,
                             ignorecase))
           [] Head(elems).k = "end" ->
                IF pos = Len(str) + 1 \/ (pos = Len(str) /\ str[pos] = "\n")
                THEN Match(Tail(elems), str, start, pos, groups, ignorecase)
                ELSE NoMatch

\* re.match(pattern, str)
match(pattern, str) == Match(pattern, str, 1, 1, NoGroups, FALSE).matched

\* of the matches ms, the leftmost one that starts at i or later
First(ms, i) ==
    CHOOSE m \in ms : m.start >= i /\ \A n \in ms : n.start >= i => m.start <= n.start

RECURSIVE NonOverlapping(_, _)
\* of the matches ms, one per start position, those a search from the left
\* finds when each search starts where the previous match ended
NonOverlapping(ms, i) ==
    IF \A m \in ms : m.start < i THEN << >>
    ELSE << First(ms, i) >> \o NonOverlapping(ms, First(ms, i).end)

\* re.finditer(pattern, str) with or without re.IGNORECASE
finditer(pattern, str, ignorecase) ==
    NonOverlapping({m \in {Match(pattern, str, i, i, NoGroups, ignorecase) :
                             i \in 1..Len(str)} : m.matched}, 1)

\* (?:with|,)\s+([a-zA-Z0-9_]+)\s+as\s*\(
cte_pattern ==
    << Alt(<< Lit(<<"w", "i", "t", "h">>) >>, << Lit(<<",">>) >>), Rep("space", 1, 0),
       Rep("word", 1, 1), Rep("space", 1, 0), Lit(<<"a", "s">>), Rep("space", 0, 0),
       Lit(<<"(">>) >>

\* from\s+(([a-zA-Z0-9_]+)\.)?([a-zA-Z0-9_]+)   group 2 is the schema, group
\* 3 the table; group 1 (the schema with its dot) is not used by the code
from_pattern ==
    << Lit(<<"f", "r", "o", "m">>), Rep("space", 1, 0),
       Alt(<< Rep("word", 1, 2), Lit(<<".">>) >>, << >>), Rep("word", 1, 3) >>

\* join\s+(([a-zA-Z0-9_]+)\.)?([a-zA-Z0-9_]+)
join_pattern ==
    << Lit(<<"j", "o", "i", "n">>), Rep("space", 1, 0),
       Alt(<< Rep("word", 1, 2), Lit(<<".">>) >>, << >>), Rep("word", 1, 3) >>

\* \{([^}]+)\}\.([a-zA-Z0-9_\-]+), from\s+([a-zA-Z0-9_]+)\.([a-zA-Z0-9_\-]+),
\* join\s+([a-zA-Z0-9_]+)\.([a-zA-Z0-9_\-]+)
schema_patterns ==
    << << Lit(<<"{">>), Rep("not}", 1, 1), Lit(<<"}">>), Lit(<<".">>), Rep("word-", 1, 2) >>,
       << Lit(<<"f", "r", "o", "m">>), Rep("space", 1, 0), Rep("word", 1, 1), Lit(<<".">>),
          Rep("word-", 1, 2) >>,
       << Lit(<<"j", "o", "i", "n">>), Rep("space", 1, 0), Rep("word", 1, 1), Lit(<<".">>),
          Rep("word-", 1, 2) >> >>

\* ^c\d+(_[a-z_]+)?$, ^cte_\d+$, ^temp_[a-z0-9_]+$   (re.match starts at ^)
cte_patterns ==
    << << Lit(<<"c">>), Rep("digit", 1, 0),
          Alt(<< Lit(<<"_">>), Rep("lower_", 1, 0) >>, << >>), End >>,
       << Lit(<<"c", "t", "e", "_">>), Rep("digit", 1, 0), End >>,
       << Lit(<<"t", "e", "m", "p", "_">>), Rep("lower09_", 1, 0), End >> >>

\* the elements of a sequence
Range(seq) == {seq[i] : i \in 1..Len(seq)}

RECURSIVE split(_, _)
\* str.split(sep) for a one-character separator "\n" or "."
split(str, sep) ==
    LET k == RunEnd(str, 1, IF sep = "." THEN "notdot" ELSE "notnl")
    IN IF k > Len(str) THEN << str >>
       ELSE << Slice(str, 1, k) >> \o split(Slice(str, k + 1, Len(str) + 1), sep)

RECURSIVE replace(_, _, _)
\* str.replace(old, new)
replace(str, old, new) ==
    IF str = << >> THEN << >>
    ELSE IF LitAt(str, 1, old, FALSE)
    THEN new \o replace(Slice(str, 1 + Len(old), Len(str) + 1), old, new)
    ELSE << str[1] >> \o replace(Tail(str), old, new)

\* str.endswith(lit)
endswith(str, lit) == LitAt(str, Len(str) - Len(lit) + 1, lit, FALSE)

----------------------------------------------------------------------------
(* lineage_mapper/lineage.py: the regex-only extractor                      *)

\* the CTE names of extract_ctes: the matches of cte_pattern whose line does
\* not start with '--' before the match
extract_ctes(sql_content) ==
    { lower(m.groups[1]) :
        m \in { n \in Range(finditer(cte_pattern, sql_content, TRUE)) :
                  ~StripStartsWith(
                      Slice(sql_content, LineStart(sql_content, n.start), n.start),
                      <<"-", "-">>) } }

NotCommentLine(line) == ~StripStartsWith(line, <<"-", "-">>)

\* extract_parent_tables of lineage.py: the table group of every from/join
\* match on the text without its comment lines, lower-cased, unless it is a
\* CTE name; the schema group is not used
lineage_extract_parent_tables(sql_content) ==
    LET ctes == extract_ctes(sql_content)
        joined == Join(SelectSeq(split(sql_content, "\n"), NotCommentLine), <<" ">>)
        matches == finditer(from_pattern, joined, TRUE) \o finditer(join_pattern, joined, TRUE)
    IN { lower(m.groups[3]) : m \in Range(matches) } \ ctes

----------------------------------------------------------------------------
(* data_lineage/generate_lineage.py: structured parser first, regular      *)
(* expressions when it gave nothing                                         *)

sql_functions ==
    { <<"t", "a", "b", "l", "e">>, <<"u", "n", "n", "e", "s", "t">>, <<"l", "a", "t", "e", "r", "a", "l">>, <<"f", "l", "a", "t", "t", "e", "n">>, <<"j", "s", "o", "n", "_", "t", "a", "b", "l", "e">>,
      <<"a", "r", "r", "a", "y">>, <<"v", "a", "l", "u", "e", "s">>, <<"c", "o", "n", "t", "a", "i", "n", "s">>, <<"c", "o", "a", "l", "e", "s", "c", "e">>, <<"s", "u", "b", "s", "t", "r">>,
      <<"c", "a", "s", "t">>, <<"f", "o", "r", "m", "a", "t">>, <<"g", "r", "o", "u", "p", "i", "n", "g">>, <<"s", "e", "t", "s">>, <<"c", "o", "u", "n", "t">>, <<"s", "u", "m">> }

known_ctes ==
    { <<"c", "c", "y">>, <<"c", "6", "6">>, <<"c", "6", "7">>, <<"c", "7", "0">>, <<"c", "6", "7", "_", "b", "a", "s", "e">>, <<"c", "7", "0", "_", "b", "a", "s", "e">>,
      <<"c", "o", "l", "u", "m", "n", "_", "i", "t", "e", "m">>, <<"e", "n", "t", "i", "t", "i", "e", "s">>, <<"c", "6", "7", "_", "a", "m", "o", "u", "n", "t">>, <<"c", "7", "0", "_", "u", "n", "i">>,
      <<"c", "6", "7", "_", "u", "n", "i">>, <<"c", "t", "e", "_", "1">> }

is_cte_name(name) ==
    LET parts == split(name, ".")
        bare == IF Contains(name, <<".">>) THEN parts[Len(parts)] ELSE name
    IN \/ bare \in known_ctes
       \/ \E p \in 1..Len(cte_patterns) : match(cte_patterns[p], bare)

\* str.find(lit, from) with 1-based positions, 0 when lit is not found
Find(str, lit, from) ==
    IF \E i \in from..Len(str) : LitAt(str, i, lit, FALSE)
    THEN CHOOSE i \in from..Len(str) :
             /\ LitAt(str, i, lit, FALSE)
             /\ \A j \in from..(i - 1) : ~LitAt(str, j, lit, FALSE)
    ELSE 0

RECURSIVE RemoveBlockComments_no_space(_)
RemoveBlockComments_no_space(str) ==
    IF Find(str, <<"/", "*">>, 1) = 0 \/ Find(str, <<"*", "/">>, Find(str, <<"/", "*">>, 1) + 2) = 0
    THEN str
    ELSE Slice(str, 1, Find(str, <<"/", "*">>, 1))
           \o RemoveBlockComments_no_space(
                  Slice(str, Find(str, <<"*", "/">>, Find(str, <<"/", "*">>, 1) + 2) + 2, Len(str) + 1))

RECURSIVE RemoveBlockComments(_)
\* re.sub(r'/\*.*?\*/', ' ', str, flags=re.DOTALL): from the leftmost /* that
\* has a */ after it to the first such */, replaced by one space, then on
\* from there
RemoveBlockComments(str) ==
    IF Find(str, <<"/", "*">>, 1) = 0 \/ Find(str, <<"*", "/">>, Find(str, <<"/", "*">>, 1) + 2) = 0
    THEN str
    ELSE Slice(str, 1, Find(str, <<"/", "*">>, 1)) \o <<" ">>
           \o RemoveBlockComments(
                  Slice(str, Find(str, <<"*", "/">>, Find(str, <<"/", "*">>, 1) + 2) + 2, Len(str) + 1))

RECURSIVE RemoveLineComments(_)
\* re.sub(r'--.*$', '', str, flags=re.MULTILINE): from each -- to the end of
\* its line, the newline kept
RemoveLineComments(str) ==
    IF Find(str, <<"-", "-">>, 1) = 0 THEN str
    ELSE Slice(str, 1, Find(str, <<"-", "-">>, 1))
           \o RemoveLineComments(
                  Slice(str, RunEnd(str, Find(str, <<"-", "-">>, 1), "notnl"), Len(str) + 1))

\* remove_comments (lines 207-213)
remove_comments(sql_content) == RemoveLineComments(RemoveBlockComments(sql_content))

\* \{([^}]+)\}
placeholder_pattern == << Lit(<<"{">>), Rep("not}", 1, 1), Lit(<<"}">>) >>

\* ([a-zA-Z0-9_]+)-([a-zA-Z0-9_]+)
hyphen_pattern == << Rep("word", 1, 1), Lit(<<"-">>), Rep("word", 1, 2) >>

RECURSIVE sub(_, _, _, _)
\* re.sub: str from position pos on, with each of the matches ms replaced by
\* its replacement in repl
sub(str, ms, repl, pos) ==
    IF ms = << >> THEN Slice(str, pos, Len(str) + 1)
    ELSE Slice(str, pos, Head(ms).start) \o Head(repl)
           \o sub(str, Tail(ms), Tail(repl), Head(ms).end)

\* re.sub(r'\{([^}]+)\}', r'\1_placeholder', str)
PlaceholderSub(str) ==
    sub(str, finditer(placeholder_pattern, str, FALSE),
        [i \in 1..Len(finditer(placeholder_pattern, str, FALSE)) |->
            finditer(placeholder_pattern, str, FALSE)[i].groups[1] \o <<"_", "p", "l", "a", "c", "e", "h", "o", "l", "d", "e", "r">>], 1)

\* re.sub(r'([a-zA-Z0-9_]+)-([a-zA-Z0-9_]+)', r'\1_\2', str)
HyphenSub(str) ==
    sub(str, finditer(hyphen_pattern, str, FALSE),
        [i \in 1..Len(finditer(hyphen_pattern, str, FALSE)) |->
            finditer(hyphen_pattern, str, FALSE)[i].groups[1] \o <<"_">>
              \o finditer(hyphen_pattern, str, FALSE)[i].groups[2]], 1)

\* the text STEP 1 gives the structured parser (lines 96-104)
sql_for_lineage(sql_content) == remove_comments(HyphenSub(PlaceholderSub(sql_content)))

RECURSIVE Layer1Loop(_, _, _)
\* the loop over lineage.source_tables (lines 110-134): the tables accepted,
\* and whether the loop was left by an exception (the unpacking of split('.')
\* raises ValueError unless there are exactly two parts)
Layer1Loop(source_tables, sql_content, parent_tables) ==
    IF source_tables = << >> THEN [parent_tables |-> parent_tables, raised |-> FALSE]
    ELSE LET table_str == lower(Head(source_tables))
             rest == Tail(source_tables)
             parts == split(table_str, ".")
             schema == <<"{">> \o replace(parts[1], <<"_", "p", "l", "a", "c", "e", "h", "o", "l", "d", "e", "r">>, << >>) \o <<"}">>
             table_name == IF Contains(sql_content, <<"-">>)
                           THEN replace(parts[2], <<"_">>, <<"-">>)
                           ELSE parts[2]
         IN IF \E func \in sql_functions :
                  func = table_str \/ endswith(table_str, <<".">> \o func)
            THEN Layer1Loop(rest, sql_content, parent_tables)
            ELSE IF is_cte_name(table_str)
            THEN Layer1Loop(rest, sql_content, parent_tables)
            ELSE IF ~Contains(table_str, <<".">>)
            THEN Layer1Loop(rest, sql_content, parent_tables)
            ELSE IF Contains(table_str, <<"_", "p", "l", "a", "c", "e", "h", "o", "l", "d", "e", "r">>) /\ Contains(sql_content, <<"{", "s", "c", "h", "e", "m", "a", "}">>)
            THEN IF Len(parts) # 2
                 THEN [parent_tables |-> parent_tables, raised |-> TRUE]
                 ELSE Layer1Loop(rest, sql_content,
                                 parent_tables \cup {schema \o <<".">> \o table_name})
            ELSE Layer1Loop(rest, sql_content, parent_tables \cup {table_str})

\* the try block of STEP 1: the parser (LineageRunner and its source_tables)
\* raises, or gives the tables the loop goes through
Layer1Try(sql_content, parser_outcome) ==
    IF parser_outcome.raises THEN [parent_tables |-> {}, raised |-> TRUE]
    ELSE Layer1Loop(parser_outcome.source_tables, sql_content, {})

\* the tables pattern number p of STEP 2 adds; the first pattern is the one
\* that starts with \{
Layer2Pattern(p, text) ==
    { IF p = 1
      THEN <<"{">> \o m.groups[1] \o <<"}", ".">> \o m.groups[2]
      ELSE m.groups[1] \o <<".">> \o m.groups[2] :
        m \in { n \in Range(finditer(schema_patterns[p], text, TRUE)) :
                  ~(n.groups[2] \in sql_functions \/ is_cte_name(n.groups[2])) } }

\* STEP 2 (lines 141-168) on sql_content.lower()
Layer2(sql_content) ==
    UNION {Layer2Pattern(p, lower(sql_content)) : p \in 1..Len(schema_patterns)}

\* what a call gives its caller: the set it returns, or an exception
Return(value) == [raised |-> FALSE, value |-> value]
Raise == [raised |-> TRUE, value |-> {}]

extract_parent_tables_no_except(sql_content, parser_outcome) ==
    LET step1 == Layer1Try(sql_content, parser_outcome)
    IN IF step1.raised THEN Raise
       ELSE IF step1.parent_tables = {} THEN Return(Layer2(sql_content))
       ELSE Return(step1.parent_tables)

\* extract_parent_tables of generate_lineage.py: `except Exception` keeps what
\* STEP 1 had accepted, STEP 2 runs when that is empty
extract_parent_tables(sql_content, parser_outcome) ==
    LET step1 == Layer1Try(sql_content, parser_outcome)
    IN IF step1.parent_tables = {} THEN Return(Layer2(sql_content))
       ELSE Return(step1.parent_tables)

----------------------------------------------------------------------------
(* SQL units.  A unit is written down as                                   *)
(*     [-- from old.t9]                                                     *)
(*     [with a as (select * from S.T), B as (...)]                          *)
(*     select * from MAIN [join JOINED on 1 = 1]                            *)
(* so that what the unit reads and which names are its CTE aliases are     *)
(* known, and the extractors work on the text they are given.               *)

MaxCtes == 2

Ref(schema, table) == [schema |-> schema, table |-> table, nested |-> FALSE, call |-> FALSE]
\* the reference read in a derived table: (select * from schema.table) q
Nested(schema, table) == [schema |-> schema, table |-> table, nested |-> TRUE, call |-> FALSE]
\* a table function in the place of a table: name(array)
Call(name) == [schema |-> None, table |-> name, nested |-> FALSE, call |-> TRUE]
NoRef == Ref(None, << >>)

\* schema-qualified tables; temp_x looks like a CTE to is_cte_name, count is
\* in sql_functions
TableRefs ==
    { Ref(<<"r", "a", "w">>, <<"t", "1">>), Ref(<<"S", "1">>, <<"O", "r", "d", "e", "r", "s">>),
      Ref(<<"r", "a", "w">>, <<"t", "e", "m", "p", "_", "x">>), Ref(<<"s", "t", "a", "t", "s">>, <<"c", "o", "u", "n", "t">>) }
CteDefs ==
    [alias : {<<"a">>, <<"B">>}, body : {Ref(<<"r", "a", "w">>, <<"t", "1">>), Ref(<<"r", "a", "w">>, <<"t", "e", "m", "p", "_", "x">>)}]
\* an unqualified name is a CTE of the unit when the unit defines it, a table
\* otherwise
MainRefs == TableRefs \cup {Ref(None, <<"a">>), Ref(None, <<"B">>), Call(<<"u", "n", "n", "e", "s", "t">>)}
JoinRefs == {NoRef, Ref(<<"S", "1">>, <<"O", "r", "d", "e", "r", "s">>), Ref(None, <<"B">>), Nested(<<"r", "a", "w">>, <<"t", "1">>)}
Separators == {<<",", " ">>, <<",">>}
Styles == {"lower", "upper", "commented"}

\* references with a placeholder for the schema, with a hyphen or an
\* underscore in the table name, and with a schema whose name is in
\* sql_functions
TemplateRefs ==
    { Ref(<<"{", "s", "c", "h", "e", "m", "a", "}">>, <<"t">>), Ref(<<"{", "e", "n", "v", "}">>, <<"t">>), Ref(<<"{", "s", "c", "h", "e", "m", "a", "}">>, <<"m", "y", "-", "t">>),
      Ref(<<"{", "s", "c", "h", "e", "m", "a", "}">>, <<"m", "y", "_", "t">>), Ref(<<"r", "a", "w">>, <<"m", "y", "-", "t">>), Ref(<<"r", "a", "w">>, <<"m", "y", "_", "t">>),
      Ref(<<"s", "e", "t", "s">>, <<"t">>), Ref(<<"r", "a", "w">>, <<"t", "1">>) }

Units ==
    { u \in [ctes : SeqsUpTo(CteDefs, MaxCtes), sep : Separators,
             main : MainRefs, join : JoinRefs, style : Styles] :
        /\ \A i, j \in 1..Len(u.ctes) :
              i # j => lower(u.ctes[i].alias) # lower(u.ctes[j].alias)
        /\ Len(u.ctes) < 2 => u.sep = <<",", " ">> }

\* a text that was not written from a unit
NoUnit == [ctes |-> << >>, sep |-> <<",", " ">>, main |-> NoRef, join |-> NoRef, style |-> "text"]
OddTexts ==
    { << >>, <<"s", "e", "l", "e", "c", "t", " ", "1">>, <<"{", "s", "c", "h", "e", "m", "a", "}", ".", "m", "y", "-", "t">>,
      <<"s", "e", "l", "e", "c", "t", " ", "*", " ", "f", "r", "o", "m", " ", "{", "s", "c", "h", "e", "m", "a", "}", ".", "t", "\n", "j", "o", "i", "n", " ", "{", "x", "}", ".", "u", " ", "o", "n", " ", "1", " ", "=", " ", "1">>,
      <<"s", "e", "l", "e", "c", "t", " ", "*", " ", "f", "r", "o", "m", " ", "r", "a", "w", ".", "t", "1", " ", "j", "o", "i", "n", " ", "d", "b", ".", "{", "s", "c", "h", "e", "m", "a", "}", ".", "t", " ", "o", "n", " ", "1", " ", "=", " ", "1">>,
      <<"-", "-", " ", "f", "r", "o", "m", " ", "o", "l", "d", ".", "t", "9", "\n", "s", "e", "l", "e", "c", "t", " ", "1">> }

\* the units select * from MAIN [join JOINED on 1 = 1] of these references
TemplateUnits ==
    { [NoUnit EXCEPT !.main = m, !.join = j, !.style = "lower"] :
        m \in TemplateRefs, j \in TemplateRefs \cup {NoRef} }

UpperChar(c) ==
    IF c \in LowerLetters THEN CHOOSE u \in UpperLetters : LowerChar(u) = c ELSE c
upper(str) == [i \in 1..Len(str) |-> UpperChar(str[i])]

Keyword(u, word) == IF u.style = "upper" THEN upper(word) ELSE word

Name(r) == IF r.schema = None THEN r.table ELSE r.schema \o <<".">> \o r.table

RefText(u, r) ==
    IF r.nested
    THEN <<"(">> \o Keyword(u, <<"s", "e", "l", "e", "c", "t">>) \o <<" ", "*", " ">> \o Keyword(u, <<"f", "r", "o", "m">>)
           \o <<" ">> \o Name(r) \o <<")", " ", "q">>
    ELSE IF r.call THEN Name(r) \o <<"(", "a", "r", "r", "a", "y", ")">>
    ELSE Name(r)

CteText(u, c) ==
    c.alias \o <<" ">> \o Keyword(u, <<"a", "s">>) \o <<" ", "(">> \o Keyword(u, <<"s", "e", "l", "e", "c", "t">>)
      \o <<" ", "*", " ">> \o Keyword(u, <<"f", "r", "o", "m">>) \o <<" ">> \o Name(c.body) \o <<")">>

Render(u) ==
    (IF u.style = "commented" THEN <<"-", "-", " ", "f", "r", "o", "m", " ", "o", "l", "d", ".", "t", "9", "\n">> ELSE << >>)
      \o (IF u.ctes = << >> THEN << >>
          ELSE Keyword(u, <<"w", "i", "t", "h">>) \o <<" ">>
                 \o Join([i \in 1..Len(u.ctes) |-> CteText(u, u.ctes[i])], u.sep)
                 \o <<"\n">>)
      \o Keyword(u, <<"s", "e", "l", "e", "c", "t">>) \o <<" ", "*", " ">> \o Keyword(u, <<"f", "r", "o", "m">>) \o <<" ">>
      \o RefText(u, u.main)
      \o (IF u.join = NoRef THEN << >>
          ELSE <<" ">> \o Keyword(u, <<"j", "o", "i", "n">>) \o <<" ">> \o RefText(u, u.join)
                 \o <<" ">> \o Keyword(u, <<"o", "n">>) \o <<" ", "1", " ", "=", " ", "1">>)

\* the names the unit introduces as CTE aliases, and what it reads
CteAliases(u) == {lower(u.ctes[i].alias) : i \in 1..Len(u.ctes)}
Reads(u) ==
    [i \in 1..Len(u.ctes) |-> u.ctes[i].body] \o << u.main >>
      \o (IF u.join = NoRef THEN << >> ELSE << u.join >>)
IsCteRef(u, r) == r.schema = None /\ lower(r.table) \in CteAliases(u)
QualifiedReads(u) == {r \in Range(Reads(u)) : r.schema # None}

RECURSIVE Dedup(_)
Dedup(seq) ==
    IF seq = << >> THEN << >>
    ELSE LET d == Dedup(SubSeq(seq, 1, Len(seq) - 1))
             x == seq[Len(seq)]
         IN IF x \in Range(d) THEN d ELSE Append(d, x)

\* the table functions the unit calls in the place of a table
Calls(u) == {r \in Range(Reads(u)) : r.call}

\* str(table) for the tables LineageRunner(...).source_tables holds when it
\* parses the unit: the tables read that are not CTEs of the unit, an
\* unqualified one under the schema <default>, each as it is written in
\* sql_for_lineage; with_calls tells whether the parser takes a table
\* function for a table
TablesOf(u, with_calls) ==
    LET IsTable(r) == ~IsCteRef(u, r) /\ (with_calls \/ ~r.call)
        tables == SelectSeq(Reads(u), IsTable)
    IN Dedup([i \in 1..Len(tables) |->
                HyphenSub(PlaceholderSub(
                    (IF tables[i].schema = None THEN <<"<", "d", "e", "f", "a", "u", "l", "t", ">">> ELSE tables[i].schema)
                      \o <<".">> \o tables[i].table))])

SourceTables(u) == TablesOf(u, FALSE)

\* what the structured parser can do with a text: raise, give the source
\* tables of the unit, or give something else
ParserRaises == [kind |-> "raises", raises |-> TRUE, source_tables |-> << >>]
ParserGives(kind, tables) == [kind |-> kind, raises |-> FALSE, source_tables |-> tables]
NoParser == [kind |-> "none", raises |-> FALSE, source_tables |-> << >>]
OtherSourceTables ==
    { << >>, << <<"s", "c", "h", "e", "m", "a", "_", "p", "l", "a", "c", "e", "h", "o", "l", "d", "e", "r", ".", "m", "y", "_", "t">> >>,
      << <<"r", "a", "w", ".", "t", "1">>, <<"d", "b", ".", "s", "c", "h", "e", "m", "a", "_", "p", "l", "a", "c", "e", "h", "o", "l", "d", "e", "r", ".", "t">> >>,
      << <<"d", "b", ".", "s", "c", "h", "e", "m", "a", "_", "p", "l", "a", "c", "e", "h", "o", "l", "d", "e", "r", ".", "t">>, <<"r", "a", "w", ".", "t", "1">> >> }
ParserOutcomes(u) ==
    {ParserRaises}
      \cup (IF Calls(u) = {} THEN {}
            ELSE {ParserGives("tables and functions", TablesOf(u, TRUE))})
      \cup (IF u = NoUnit THEN {ParserGives("other", ts) : ts \in OtherSourceTables}
            ELSE {ParserGives("source tables", SourceTables(u)),
                  ParserGives("other", << <<"<", "d", "e", "f", "a", "u", "l", "t", ">", ".", "q">>, <<"a", ".", "b", ".", "c">> >>)})

Mappers == {"generate_lineage", "lineage_mapper"}

----------------------------------------------------------------------------
(* SpecExtract: one call of extract_parent_tables                           *)

InitExtract ==
    /\ mapper \in Mappers
    /\ unit \in Units \cup TemplateUnits \cup {NoUnit}
    /\ content \in (IF unit = NoUnit THEN OddTexts ELSE {Render(unit)})
    /\ parser \in (IF mapper = "generate_lineage" THEN ParserOutcomes(unit) ELSE {NoParser})
    /\ outcome = << >>
    /\ ex_pc = "called"
    /\ IdleDQ /\ IdleScan

\* SQLLineageMapper.extract_parent_tables of generate_lineage.py
ExtractParentTables ==
    /\ ex_pc = "called" /\ mapper = "generate_lineage"
    /\ outcome' = extract_parent_tables(content, parser)
    /\ ex_pc' = IF outcome'.raised THEN "raised" ELSE "returned"
    /\ UNCHANGED <<dqvars, scanvars, unit, content, parser>>

\* SQLLineageMapper.extract_parent_tables of lineage.py
LineageExtractParentTables ==
    /\ ex_pc = "called" /\ mapper = "lineage_mapper"
    /\ outcome' = Return(lineage_extract_parent_tables(content))
    /\ ex_pc' = "returned"
    /\ UNCHANGED <<dqvars, scanvars, unit, content, parser>>

NextExtract == ExtractParentTables \/ LineageExtractParentTables

SpecExtract == InitExtract /\ [][NextExtract]_vars

----------------------------------------------------------------------------
(* SpecComments: one call of remove_comments, on every text of up to       *)
(* MaxParts comment markers, newlines and other characters                  *)

MaxParts == 5

CommentParts == { <<"/", "*">>, <<"*", "/">>, <<"-", "-">>, <<"\n">>, <<"/">>, <<"*">>, <<"-">>, <<"a">> }

RECURSIVE Concat(_)
Concat(parts) == IF parts = << >> THEN << >> ELSE Head(parts) \o Concat(Tail(parts))

CommentTexts == { Concat(parts) : parts \in SeqsUpTo(CommentParts, MaxParts) }

InitComments ==
    /\ mapper = "generate_lineage"
    /\ unit = NoUnit /\ parser = NoParser
    /\ content \in CommentTexts
    /\ outcome = << >>
    /\ ex_pc = "called"
    /\ IdleDQ /\ IdleScan

\* SQLLineageMapper.remove_comments
RemoveComments ==
    /\ ex_pc = "called"
    /\ outcome' = remove_comments(content)
    /\ ex_pc' = "stripped"
    /\ UNCHANGED <<dqvars, scanvars, unit, content, parser>>

NextComments == RemoveComments

SpecComments == InitComments /\ [][NextComments]_vars

----------------------------------------------------------------------------
(* SpecScan: one scan of the SQL folder, by process_sql_files of           *)
(* generate_lineage.py or by build_lineage_map of lineage.py                *)

MaxFiles == 2

\* the SQL units the files of the folder hold
FileUnits ==
    { [NoUnit EXCEPT !.main = Ref(<<"r", "a", "w">>, <<"t", "1">>), !.style = "lower"],
      [NoUnit EXCEPT !.main = Ref(<<"S", "1">>, <<"O", "r", "d", "e", "r", "s">>),
                     !.join = Ref(None, <<"B">>), !.style = "upper"],
      [NoUnit EXCEPT !.ctes = << [alias |-> <<"a">>, body |-> Ref(<<"r", "a", "w">>, <<"t", "e", "m", "p", "_", "x">>)] >>,
                     !.main = Ref(None, <<"a">>), !.style = "lower"],
      [NoUnit EXCEPT !.main = Ref(<<"a", "n", "a", "l", "y", "t", "i", "c", "s">>, <<"O", "r", "d", "e", "r", "s">>), !.style = "lower"] }

\* file_path.stem of the files
Stems == {<<"O", "r", "d", "e", "r", "s">>, <<"b">>}

\* a file of the folder: open() and read() give its content or raise
UnreadableFile(stem) ==
    [stem |-> stem, readable |-> FALSE, content |-> << >>, parser |-> NoParser]
ReadableFile(stem, u, p) ==
    [stem |-> stem, readable |-> TRUE, content |-> Render(u), parser |-> p]

FileParsers(m, u) ==
    IF m = "generate_lineage"
    THEN {ParserRaises, ParserGives("source tables", SourceTables(u))}
    ELSE {NoParser}

Files(m) ==
    {UnreadableFile(stem) : stem \in Stems}
      \cup UNION { {ReadableFile(stem, u, p) : p \in FileParsers(m, u)} :
                     stem \in Stems, u \in FileUnits }

\* self.config.get('file-schema', None); lineage.py has no such setting
FileSchemas == {None, << >>, <<"a", "n", "a", "l", "y", "t", "i", "c", "s">>}

\* `if self.file_schema`
Truthy(schema) == schema # None /\ schema # << >>

\* the three files _create_sample_sql_files writes into the SQL folder of the
\* end-to-end test, each with the tables its statement reads
SampleSqlFiles ==
    << [stem |-> <<"s", "o", "u", "r", "c", "e", "_", "t", "a", "b", "l", "e">>,
        content |-> <<"\n", "-", "-", " ", "T", "h", "i", "s", " ", "i", "s", " ", "a", " ", "s", "o", "u", "r", "c", "e", " ", "t", "a", "b", "l", "e", "\n", "C", "R", "E", "A", "T", "E", " ", "T", "A", "B", "L", "E", " ", "a", "n", "a", "l", "y", "t", "i", "c", "s", ".", "s", "o", "u", "r", "c", "e", "_", "t", "a", "b", "l", "e", " ", "A", "S", "\n", "S", "E", "L", "E", "C", "T", " ", "*", " ", "F", "R", "O", "M", " ", "r", "a", "w", "_", "d", "a", "t", "a", ".", "i", "n", "p", "u", "t", "_", "t", "a", "b", "l", "e", ";", "\n">>,
        reads |-> << <<"r", "a", "w", "_", "d", "a", "t", "a", ".", "i", "n", "p", "u", "t", "_", "t", "a", "b", "l", "e">> >>],
       [stem |-> <<"i", "n", "t", "e", "r", "m", "e", "d", "i", "a", "t", "e", "_", "t", "a", "b", "l", "e">>,
        content |-> <<"\n", "-", "-", " ", "T", "h", "i", "s", " ", "i", "s", " ", "a", "n", " ", "i", "n", "t", "e", "r", "m", "e", "d", "i", "a", "t", "e", " ", "t", "a", "b", "l", "e", "\n", "C", "R", "E", "A", "T", "E", " ", "T", "A", "B", "L", "E", " ", "a", "n", "a", "l", "y", "t", "i", "c", "s", ".", "i", "n", "t", "e", "r", "m", "e", "d", "i", "a", "t", "e", "_", "t", "a", "b", "l", "e", " ", "A", "S", "\n", "S", "E", "L", "E", "C", "T", " ", "\n", " ", " ", " ", " ", "i", "d", ",", "\n", " ", " ", " ", " ", "S", "U", "M", "(", "v", "a", "l", "u", "e", ")", " ", "a", "s", " ", "t", "o", "t", "a", "l", "_", "v", "a", "l", "u", "e", "\n", "F", "R", "O", "M", " ", "a", "n", "a", "l", "y", "t", "i", "c", "s", ".", "s", "o", "u", "r", "c", "e", "_", "t", "a", "b", "l", "e", "\n", "G", "R", "O", "U", "P", " ", "B", "Y", " ", "i", "d", ";", "\n">>,
        reads |-> << <<"a", "n", "a", "l", "y", "t", "i", "c", "s", ".", "s", "o", "u", "r", "c", "e", "_", "t", "a", "b", "l", "e">> >>],
       [stem |-> <<"f", "i", "n", "a", "l", "_", "t", "a", "b", "l", "e">>,
        content |-> <<"\n", "-", "-", " ", "T", "h", "i", "s", " ", "i", "s", " ", "a", " ", "f", "i", "n", "a", "l", " ", "t", "a", "b", "l", "e", "\n", "C", "R", "E", "A", "T", "E", " ", "T", "A", "B", "L", "E", " ", "a", "n", "a", "l", "y", "t", "i", "c", "s", ".", "f", "i", "n", "a", "l", "_", "t", "a", "b", "l", "e", " ", "A", "S", "\n", "S", "E", "L", "E", "C", "T", " ", "\n", " ", " ", " ", " ", "i", ".", "i", "d", ",", "\n", " ", " ", " ", " ", "i", ".", "t", "o", "t", "a", "l", "_", "v", "a", "l", "u", "e", ",", "\n", " ", " ", " ", " ", "s", ".", "c", "r", "e", "a", "t", "e", "d", "_", "a", "t", "\n", "F", "R", "O", "M", " ", "a", "n", "a", "l", "y", "t", "i", "c", "s", ".", "i", "n", "t", "e", "r", "m", "e", "d", "i", "a", "t", "e", "_", "t", "a", "b", "l", "e", " ", "i", "\n", "J", "O", "I", "N", " ", "a", "n", "a", "l", "y", "t", "i", "c", "s", ".", "s", "o", "u", "r", "c", "e", "_", "t", "a", "b", "l", "e", " ", "s", " ", "O", "N", " ", "i", ".", "i", "d", " ", "=", " ", "s", ".", "i", "d", ";", "\n">>,
        reads |-> << <<"a", "n", "a", "l", "y", "t", "i", "c", "s", ".", "i", "n", "t", "e", "r", "m", "e", "d", "i", "a", "t", "e", "_", "t", "a", "b", "l", "e">>, <<"a", "n", "a", "l", "y", "t", "i", "c", "s", ".", "s", "o", "u", "r", "c", "e", "_", "t", "a", "b", "l", "e">> >>] >>

\* what the structured parser does with a sample file: it raises, or gives
\* the tables the statement reads
SampleParsers(s) == {ParserRaises, ParserGives("source tables", s.reads)}

\* the sample folder as rglob may list it: the three files in any order
SampleFolders ==
    { [i \in 1..3 |-> [stem |-> SampleSqlFiles[order[i]].stem, readable |-> TRUE,
                       content |-> SampleSqlFiles[order[i]].content,
                       parser |-> parsers[order[i]]]] :
        order \in {o \in [1..3 -> 1..3] : {o[1], o[2], o[3]} = 1..3},
        parsers \in {p \in [1..3 -> UNION {SampleParsers(SampleSqlFiles[k]) : k \in 1..3}] :
                       \A k \in 1..3 : p[k] \in SampleParsers(SampleSqlFiles[k])} }

\* a folder of two files: a.sql holds SELECT * FROM raw.input, b.sql holds
\* SELECT * FROM a, a name that is no CTE of b.sql and so the table of a.sql
ChainUnits ==
    ( <<"a">> :> [NoUnit EXCEPT !.main = Ref(<<"r", "a", "w">>, <<"i", "n", "p", "u", "t">>), !.style = "upper"] @@
      <<"b">> :> [NoUnit EXCEPT !.main = Ref(None, <<"a">>), !.style = "upper"] )

ChainFiles(m, stem) ==
    {ReadableFile(stem, ChainUnits[stem], p) : p \in FileParsers(m, ChainUnits[stem])}

ChainFolders(m) ==
    UNION { {<<fa, fb>>, <<fb, fa>>} :
              fa \in ChainFiles(m, <<"a">>), fb \in ChainFiles(m, <<"b">>) }

\* build_lineage has called process_sql_files; lineage.py has no build_lineage
Building == [pc |-> "process_sql_files", generate_mermaid_calls |-> 0, md_file |-> None]
NotBuilding == [pc |-> "none", generate_mermaid_calls |-> 0, md_file |-> None]

InitScan ==
    /\ mapper \in Mappers
    /\ file_schema \in (IF mapper = "generate_lineage" THEN FileSchemas ELSE {None})
    /\ \/ sql_files \in SeqsUpTo(Files(mapper), MaxFiles)
       \/ /\ mapper = "generate_lineage" /\ file_schema = <<"a", "n", "a", "l", "y", "t", "i", "c", "s">>
          /\ sql_files \in SampleFolders
       \/ ~Truthy(file_schema) /\ sql_files \in ChainFolders(mapper)
    /\ fi = 1
    /\ relationships = {}
    /\ scan_pc = "scanning"
    /\ scan_log = << >>
    /\ build = IF mapper = "generate_lineage" THEN Building ELSE NotBuilding
    /\ IdleDQ /\ IdleExtract

target_table_not_lowered(schema, stem) ==
    IF Truthy(schema) THEN schema \o <<".">> \o stem ELSE stem

\* the target is the bare table name whatever file-schema is configured
target_table_without_schema(schema, stem) == lower(stem)

\* table_name = file_path.stem.lower()
\* target_table = f"{self.file_schema}.{table_name}" if self.file_schema else table_name
target_table(schema, stem) ==
    IF Truthy(schema) THEN schema \o <<".">> \o lower(stem) ELSE lower(stem)

add_replaces(rels, sources, target) == {<<source, target>> : source \in sources}

\* for source in source_tables: self.relationships.add((source, target_table))
add(rels, sources, target) == rels \cup {<<source, target>> : source \in sources}

\* the body of the try for one file, up to the sources: open/read raise for
\* an unreadable file
ReadAndExtract(f) ==
    IF ~f.readable THEN Raise ELSE extract_parent_tables(f.content, f.parser)

LineageReadAndExtract(f) ==
    IF ~f.readable THEN Raise ELSE Return(lineage_extract_parent_tables(f.content))

\* the files a folder can hold
FolderFiles ==
    UNION {Files(m) : m \in Mappers}
      \cup UNION {Range(folder) : folder \in SampleFolders}
      \cup UNION {ChainFiles(m, stem) : m \in Mappers, stem \in DOMAIN ChainUnits}

\* reading a file and extracting its parent tables changes nothing of the
\* mapper, so what it gives is a function of the file: one table per mapper,
\* computed once for all scans
Extracted == [f \in FolderFiles |-> ReadAndExtract(f)]
LineageExtracted == [f \in FolderFiles |-> LineageReadAndExtract(f)]

\* what the scan did with file number i
Processed(i, o, target, rels) ==
    [file |-> i, raised |-> o.raised, sources |-> o.value, target |-> target,
     before |-> relationships, after |-> rels]

ProcessSqlFiles_no_except ==
    /\ scan_pc = "scanning" /\ mapper = "generate_lineage" /\ fi <= Len(sql_files)
    /\ LET f == sql_files[fi]
           o == Extracted[f]
           target == target_table(file_schema, f.stem)
           rels == IF o.raised THEN relationships ELSE add(relationships, o.value, target)
       IN /\ relationships' = rels
          /\ scan_log' = Append(scan_log, Processed(fi, o, target, rels))
          /\ scan_pc' = IF o.raised THEN "aborted" ELSE scan_pc
    /\ fi' = fi + 1
    /\ UNCHANGED <<dqvars, exvars, mapper, file_schema, sql_files, build>>

\* one iteration of the loop of process_sql_files (generate_lineage.py):
\* `except Exception` logs the error and the loop goes on
ProcessSqlFiles ==
    /\ scan_pc = "scanning" /\ mapper = "generate_lineage" /\ fi <= Len(sql_files)
    /\ LET f == sql_files[fi]
           o == Extracted[f]
           target == target_table(file_schema, f.stem)
           rels == IF o.raised THEN relationships ELSE add(relationships, o.value, target)
       IN /\ relationships' = rels
          /\ scan_log' = Append(scan_log, Processed(fi, o, target, rels))
    /\ fi' = fi + 1
    /\ UNCHANGED <<dqvars, exvars, mapper, file_schema, sql_files, scan_pc, build>>

\* process_sql_file (lineage.py), called for one file by build_lineage_map
ProcessSqlFile ==
    /\ scan_pc = "scanning" /\ mapper = "lineage_mapper" /\ fi <= Len(sql_files)
    /\ LET f == sql_files[fi]
           o == LineageExtracted[f]
           target == lower(f.stem)
           rels == IF o.raised THEN relationships ELSE add(relationships, o.value, target)
       IN /\ relationships' = rels
          /\ scan_log' = Append(scan_log, Processed(fi, o, target, rels))
    /\ fi' = fi + 1
    /\ UNCHANGED <<dqvars, exvars, mapper, file_schema, sql_files, scan_pc, build>>

\* the loop over the files is over: process_sql_files / build_lineage_map return
EndScan ==
    /\ scan_pc = "scanning" /\ fi > Len(sql_files)
    /\ scan_pc' = "done"
    /\ UNCHANGED <<dqvars, exvars, mapper, file_schema, sql_files, fi, relationships, scan_log, build>>

\* f'"{name}"' if '{' in name or '}' in name else name
Escaped(name) ==
    IF Contains(name, <<"{">>) \/ Contains(name, <<"}">>) THEN <<"\"">> \o name \o <<"\"">>
    ELSE name

\* lines.append(f"    {source_escaped}-->{target_escaped}")
MermaidLine(pair) == <<" ", " ", " ", " ">> \o Escaped(pair[1]) \o <<"-", "-", ">">> \o Escaped(pair[2])

\* generate_mermaid of generate_lineage.py: ValueError when there is no
\* relationship; otherwise the line "flowchart TD" and one line per
\* relationship, in the order the set is iterated (here: the set of the lines)
generate_mermaid(rels) ==
    IF rels = {} THEN Raise
    ELSE Return({ MermaidLine(pair) : pair \in rels })

\* the text generate_mermaid returns when the set is iterated in this order
mermaid_content(order) ==
    Join(<< <<"f", "l", "o", "w", "c", "h", "a", "r", "t", " ", "T", "D">> >> \o [i \in 1..Len(order) |-> MermaidLine(order[i])], <<"\n">>)

\* what build_lineage does after process_sql_files once generate_mermaid
\* gave `mermaid`: save_mermaid writes the file, or open()/makedirs raise
GenerateAndSave(mermaid, written) ==
    IF mermaid.raised
    THEN [build EXCEPT !.pc = "raised", !.generate_mermaid_calls = @ + 1]
    ELSE [build EXCEPT !.pc = IF written THEN "returned True" ELSE "raised",
                       !.generate_mermaid_calls = @ + 1,
                       !.md_file = IF written THEN mermaid.value ELSE None]

\* build_lineage goes on to the diagram without looking at the relationships
BuildLineage_no_check ==
    /\ scan_pc = "done" /\ build.pc = "process_sql_files"
    /\ \E written \in BOOLEAN :
          build' = GenerateAndSave(generate_mermaid(relationships), written)
    /\ UNCHANGED <<dqvars, exvars, mapper, file_schema, sql_files, fi, relationships, scan_pc, scan_log>>

\* build_lineage after process_sql_files returned: `if not self.relationships:
\* ... return False`, else generate_mermaid, save_mermaid, return True
BuildLineage ==
    /\ scan_pc = "done" /\ build.pc = "process_sql_files"
    /\ \E written \in BOOLEAN :
          build' = IF relationships = {} THEN [build EXCEPT !.pc = "returned False"]
                   ELSE GenerateAndSave(generate_mermaid(relationships), written)
    /\ UNCHANGED <<dqvars, exvars, mapper, file_schema, sql_files, fi, relationships, scan_pc, scan_log>>

NextScan == ProcessSqlFiles \/ ProcessSqlFile \/ EndScan \/ BuildLineage

SpecScan == InitScan /\ [][NextScan]_vars

----------------------------------------------------------------------------
(* SpecMermaid: generate_mermaid on a relationship set, and                *)
(* parse_mermaid_flowchart on the text it returned                          *)

MaxRels == 2

\* table names of letters, digits, '_', '-', '.', and with a placeholder
NodeNames == { <<"a", "-">>, <<"-", "b">>, <<"S", "1", ".", "y", "_", "1">>, <<"{", "s", "c", "h", "e", "m", "a", "}", ".", "m", "y", "-", "t">> }

RelationshipSets ==
    { Range(pairs) : pairs \in SeqsUpTo(NodeNames \X NodeNames, MaxRels) } \ { {} }

\* the orders in which a set can be iterated
Enumerations(S) == { order \in [1..Cardinality(S) -> S] : Range(order) = S }

\* str.strip()
strip(str) ==
    IF RunEnd(str, 1, "space") > Len(str) THEN << >>
    ELSE Slice(str, RunEnd(str, 1, "space"),
               1 + CHOOSE j \in 1..Len(str) :
                       /\ ~IsSpace(str[j])
                       /\ \A k \in (j + 1)..Len(str) : IsSpace(str[k]))

\* str.startswith(lit)
startswith(str, lit) == LitAt(str, 1, lit, FALSE)

\* relationship_pattern from its arrow on:
\* \s*-->\s*(?:"([^"]+)"|([a-zA-Z0-9_\-.\{\}]+)); the target is group 3 here
\* for both alternatives
arrow_and_target ==
    << Rep("space", 0, 0), Lit(<<"-", "-", ">">>), Rep("space", 0, 0),
       Alt(<< Lit(<<"\"">>), Rep("notquote", 1, 3), Lit(<<"\"">>) >>, << Rep("node", 1, 3) >>) >>

\* "([^"]+)" as the source
quoted_source == << Lit(<<"\"">>), Rep("notquote", 1, 1), Lit(<<"\"">>) >>

\* the ends of an unquoted source that starts at i with which the rest of the
\* pattern matches
SourceEnds(line, i) ==
    { k \in (i + 1)..RunEnd(line, i, "node") :
        Match(arrow_and_target, line, i, k, NoGroups, FALSE).matched }

\* the unquoted source gives back nothing of its longest run
RelationshipAt_no_backtracking(line, i) ==
    OrElse(Match(quoted_source \o arrow_and_target, line, i, i, NoGroups, FALSE),
           IF RunEnd(line, i, "node") = i THEN NoMatch
           ELSE Match(arrow_and_target, line, i, RunEnd(line, i, "node"),
                      [NoGroups EXCEPT ![1] = Slice(line, i, RunEnd(line, i, "node"))], FALSE))

\* the match of relationship_pattern that starts at position i: the quoted
\* source first, then the unquoted one, greedy, giving back characters until
\* the arrow and the target match; the source is group 1 here for both
RelationshipAt(line, i) ==
    OrElse(Match(quoted_source \o arrow_and_target, line, i, i, NoGroups, FALSE),
           LET ends == SourceEnds(line, i)
               last == CHOOSE k \in ends : \A j \in ends : j <= k
           IN IF ends = {} THEN NoMatch
              ELSE Match(arrow_and_target, line, i, last,
                         [NoGroups EXCEPT ![1] = Slice(line, i, last)], FALSE))

\* re.search(relationship_pattern, line): the match at the leftmost position
\* that has one
search(line) ==
    LET ms == {m \in {RelationshipAt(line, i) : i \in 1..Len(line)} : m.matched}
    IN IF ms = {} THEN NoMatch ELSE First(ms, 1)

NotEmpty(line) == line # << >>
Matched(m) == m.matched

RECURSIVE ListOf(_)
\* list(S): the elements of a set, each once, in the order of its iteration
ListOf(S) ==
    IF S = {} THEN << >>
    ELSE LET x == CHOOSE y \in S : TRUE IN << x >> \o ListOf(S \ {x})

\* parse_mermaid_flowchart (lines 314-352)
parse_mermaid_flowchart(mermaid_content_) ==
    LET lines == split(mermaid_content_, "\n")
        start_index ==
            IF \/ startswith(strip(lines[1]), <<"f", "l", "o", "w", "c", "h", "a", "r", "t">>)
               \/ startswith(strip(lines[1]), <<"g", "r", "a", "p", "h">>)
            THEN 2 ELSE 1
        relationship_lines ==
            SelectSeq([i \in 1..(Len(lines) - start_index + 1) |->
                          strip(lines[i + start_index - 1])], NotEmpty)
        matches ==
            SelectSeq([i \in 1..Len(relationship_lines) |-> search(relationship_lines[i])],
                      Matched)
        nodes == UNION { {matches[i].groups[1], matches[i].groups[3]} : i \in 1..Len(matches) }
        node_list == ListOf(nodes)
    IN [nodes |-> [i \in 1..Len(node_list) |-> [id |-> node_list[i], name |-> node_list[i]]],
        links |-> [i \in 1..Len(matches) |->
                     [source |-> matches[i].groups[1], target |-> matches[i].groups[3]]]]

InitMermaid ==
    /\ mapper = "generate_lineage" /\ file_schema = None /\ sql_files = << >>
    /\ fi = 1 /\ scan_pc = "done" /\ scan_log = << >> /\ build = NotBuilding
    /\ relationships \in RelationshipSets
    /\ unit = NoUnit /\ parser = NoParser
    /\ content = << >> /\ outcome = << >>
    /\ ex_pc = "generate"
    /\ IdleDQ

\* SQLLineageMapper.generate_mermaid
GenerateMermaid ==
    /\ ex_pc = "generate"
    /\ \E order \in Enumerations(relationships) : content' = mermaid_content(order)
    /\ ex_pc' = "parse"
    /\ UNCHANGED <<dqvars, scanvars, unit, parser, outcome>>

\* parse_mermaid_flowchart on the text generate_mermaid returned
ParseMermaidFlowchart ==
    /\ ex_pc = "parse"
    /\ outcome' = parse_mermaid_flowchart(content)
    /\ ex_pc' = "parsed"
    /\ UNCHANGED <<dqvars, scanvars, unit, parser, content>>

NextMermaid == GenerateMermaid \/ ParseMermaidFlowchart

SpecMermaid == InitMermaid /\ [][NextMermaid]_vars

----------------------------------------------------------------------------
(* Properties of the scan                                                   *)

\* the files processed so far, with what the scan did with each
Scanned == {i \in 1..Len(scan_log) : TRUE}
FileOf(i) == sql_files[scan_log[i].file]
Added(i) == scan_log[i].after \ scan_log[i].before

\* the lower-cased stems, written out
LowerCasedStem(stem) == IF stem = <<"O", "r", "d", "e", "r", "s">> THEN <<"o", "r", "d", "e", "r", "s">> ELSE stem

\* C5: every relationship added while processing a file has as target the
\* lower-cased stem of that file, prefixed with '<file_schema>.' when a
\* file-schema is configured and bare otherwise, so the target does not depend
\* on the SQL content of the file; and every relationship was added while
\* processing some file.
C5_TargetIsFileStem ==
    /\ \A i \in Scanned : \A pair \in Added(i) :
          pair[2] = IF file_schema \in {None, << >>}
                    THEN LowerCasedStem(FileOf(i).stem)
                    ELSE file_schema \o <<".">> \o LowerCasedStem(FileOf(i).stem)
    /\ \A i, j \in Scanned : \A p \in Added(i), q \in Added(j) :
          FileOf(i).stem = FileOf(j).stem => p[2] = q[2]
    /\ relationships = UNION {Added(i) : i \in Scanned}

\* a file Orders.sql under file-schema analytics gave a relationship
C5_Witness ==
    \E i \in Scanned :
        /\ FileOf(i).stem = <<"O", "r", "d", "e", "r", "s">> /\ file_schema = <<"a", "n", "a", "l", "y", "t", "i", "c", "s">>
        /\ \E pair \in Added(i) : pair[2] = <<"a", "n", "a", "l", "y", "t", "i", "c", "s", ".", "o", "r", "d", "e", "r", "s">>

\* the sources and the target of a file, by the mapper that scans
SourcesOf(f) ==
    IF mapper = "generate_lineage" THEN Extracted[f].value ELSE LineageExtracted[f].value
TargetOf(f) ==
    IF mapper = "generate_lineage" THEN target_table(file_schema, f.stem)
    ELSE lower(f.stem)

\* C6: after the scan the relationship set is exactly the union over the
\* readable files f of {(s, target(f)) : s in extract_parent_tables(content(f))};
\* the union depends on the set of files only, so not on their order, and a
\* pair given by several files is in the set once.
C6_RelationshipsAreUnionOverFiles ==
    scan_pc = "done" =>
        relationships =
            UNION { {<<s, TargetOf(f)>> : s \in SourcesOf(f)} :
                      f \in {g \in Range(sql_files) : g.readable} }

\* the second of two different files gave only pairs the first had given, and
\* the set holds each of the two pairs once
C6_Witness ==
    /\ scan_pc = "done" /\ Len(sql_files) = 2 /\ sql_files[1] # sql_files[2]
    /\ ~scan_log[2].raised /\ scan_log[2].sources # {}
    /\ scan_log[2].after = scan_log[2].before
    /\ Cardinality(relationships) = 2

\* C7: a file whose reading or processing raises contributes no relationship
\* and leaves the relationships of the files before it unchanged; the files
\* are processed one after the other to the last one, and the scan is never
\* aborted.
C7_FailingFileIsSkipped ==
    /\ scan_pc \in {"idle", "scanning", "done"}
    /\ \A i \in Scanned : scan_log[i].raised => scan_log[i].after = scan_log[i].before
    /\ \A i \in Scanned : scan_log[i].file = i
    /\ scan_pc = "scanning" => (Len(scan_log) = fi - 1 /\ fi <= Len(sql_files) + 1)
    /\ scan_pc = "done" => Len(scan_log) = Len(sql_files)

\* the first file gave relationships, the second raised and they were kept
C7_Witness ==
    /\ scan_pc = "done" /\ Len(sql_files) = 2
    /\ ~scan_log[1].raised /\ scan_log[1].after # {}
    /\ scan_log[2].raised /\ relationships = scan_log[1].after

\* the relationships the end-to-end test expects of the sample folder
SampleEdges ==
    { << <<"r", "a", "w", "_", "d", "a", "t", "a", ".", "i", "n", "p", "u", "t", "_", "t", "a", "b", "l", "e">>, <<"a", "n", "a", "l", "y", "t", "i", "c", "s", ".", "s", "o", "u", "r", "c", "e", "_", "t", "a", "b", "l", "e">> >>,
      << <<"a", "n", "a", "l", "y", "t", "i", "c", "s", ".", "s", "o", "u", "r", "c", "e", "_", "t", "a", "b", "l", "e">>, <<"a", "n", "a", "l", "y", "t", "i", "c", "s", ".", "i", "n", "t", "e", "r", "m", "e", "d", "i", "a", "t", "e", "_", "t", "a", "b", "l", "e">> >>,
      << <<"a", "n", "a", "l", "y", "t", "i", "c", "s", ".", "i", "n", "t", "e", "r", "m", "e", "d", "i", "a", "t", "e", "_", "t", "a", "b", "l", "e">>, <<"a", "n", "a", "l", "y", "t", "i", "c", "s", ".", "f", "i", "n", "a", "l", "_", "t", "a", "b", "l", "e">> >>,
      << <<"a", "n", "a", "l", "y", "t", "i", "c", "s", ".", "s", "o", "u", "r", "c", "e", "_", "t", "a", "b", "l", "e">>, <<"a", "n", "a", "l", "y", "t", "i", "c", "s", ".", "f", "i", "n", "a", "l", "_", "t", "a", "b", "l", "e">> >> }

\* C11: with file-schema analytics, process_sql_files on the sample folder
\* (source_table.sql, intermediate_table.sql, final_table.sql) leaves exactly
\* the four edges of the chain in the relationship set, in whatever order the
\* files are processed and whether the structured parser or the regular
\* expressions find the tables.
C11_SampleFolderGivesFourEdges ==
    (scan_pc = "done" /\ sql_files \in SampleFolders) =>
        /\ Cardinality(relationships) = 4
        /\ relationships = SampleEdges

\* the sample folder was scanned with final_table.sql first and
\* source_table.sql last, the parser raising on one file and not on another
C11_Witness ==
    /\ scan_pc = "done" /\ sql_files \in SampleFolders
    /\ sql_files[1].stem = <<"f", "i", "n", "a", "l", "_", "t", "a", "b", "l", "e">> /\ sql_files[3].stem = <<"s", "o", "u", "r", "c", "e", "_", "t", "a", "b", "l", "e">>
    /\ sql_files[1].parser.raises /\ ~sql_files[2].parser.raises
    /\ relationships = SampleEdges

\* C12: with a.sql holding SELECT * FROM raw.input and b.sql holding
\* SELECT * FROM a in one folder and no file-schema configured, the
\* relationship set after the scan contains (raw.input, a) and (a, b).
C12_ChainThroughFileNames ==
    (scan_pc = "done" /\ sql_files \in ChainFolders(mapper)) =>
        /\ << <<"r", "a", "w", ".", "i", "n", "p", "u", "t">>, <<"a">> >> \in relationships
        /\ << <<"a">>, <<"b">> >> \in relationships

C27_NoSelfReference ==
    \A pair \in relationships : pair[1] # pair[2]

----------------------------------------------------------------------------
(* Properties of extract_parent_tables                                      *)

\* C8: extract_parent_tables never raises to its caller, whatever the text
\* and whatever the structured parser does (raising included), and it returns
\* the empty set when neither layer finds a table.
C8_ExtractNeverRaises ==
    ex_pc \notin {"idle", "called"} =>
        /\ ex_pc = "returned" /\ ~outcome.raised
        /\ (/\ mapper = "generate_lineage"
            /\ Layer1Try(content, parser).parent_tables = {}
            /\ Layer2(content) = {}) => outcome.value = {}

\* the parser raised on a text without a table reference and the call
\* returned the empty set
C8_Witness ==
    /\ ex_pc = "returned" /\ mapper = "generate_lineage"
    /\ parser.raises /\ content = <<"s", "e", "l", "e", "c", "t", " ", "1">>
    /\ outcome = Return({})

\* the identifier under which a mapper returns a table: lineage.py returns
\* the bare table name
Identifier(r) ==
    IF mapper = "generate_lineage" THEN lower(Name(r)) ELSE lower(r.table)

\* the call returned for a text written from a unit, and the structured
\* parser raised or gave the source tables of the unit
ReturnedForUnit ==
    /\ ex_pc = "returned" /\ unit # NoUnit
    /\ parser.kind \in {"none", "raises", "source tables"}

\* C9: no CTE alias of the unit is in the set extract_parent_tables returns,
\* and the schema-qualified tables read in the CTE bodies and in nested
\* subqueries are in it.
C9_CteAliasesExcluded ==
    ReturnedForUnit =>
        /\ \A alias \in CteAliases(unit) : alias \notin outcome.value
        /\ \A r \in {unit.ctes[i].body : i \in 1..Len(unit.ctes)}
                      \cup {q \in {unit.main, unit.join} : q.nested} :
              Identifier(r) \in outcome.value

\* the unit reads schema-qualified tables only and has no CTE
OnlyQualifiedTables(u) ==
    u.ctes = << >> /\ \A r \in Range(Reads(u)) : r.schema # None

\* C10: for a unit whose FROM and JOIN clauses reference schema-qualified
\* tables only, extract_parent_tables returns exactly the lower-cased
\* 'schema.table' strings of those references.
C10_QualifiedTablesReturnedExactly ==
    ReturnedForUnit /\ OnlyQualifiedTables(unit) =>
        outcome.value = {lower(Name(r)) : r \in QualifiedReads(unit)}

\* C13: a table function in FROM/JOIN position, such as FROM unnest(array),
\* never puts its name, bare or schema-qualified, into the set
\* extract_parent_tables returns, whichever mapper and whichever layer gave
\* the set.
C13_TableFunctionNeverReturned ==
    (ex_pc = "returned" /\ unit # NoUnit) =>
        \A r \in Calls(unit) : \A t \in outcome.value :
            /\ t # lower(r.table)
            /\ ~endswith(t, <<".">> \o lower(r.table))

\* the call of generate_lineage.py returned for a text written from a unit
GenerateLineageReturned ==
    ex_pc = "returned" /\ mapper = "generate_lineage" /\ unit # NoUnit

\* C24: in every layer of extract_parent_tables of generate_lineage.py, no
\* reference whose schema or whose table name is in sql_functions is in the
\* set returned.
C24_DenylistedSchemaOrTableExcluded ==
    GenerateLineageReturned =>
        \A r \in QualifiedReads(unit) :
            (lower(r.schema) \in sql_functions \/ lower(r.table) \in sql_functions)
                => lower(Name(r)) \notin outcome.value

\* the structured parser raised or gave the source tables of the unit
FaithfulParser == parser.kind \in {"raises", "source tables"}

\* C25: a reference written {name}.table in the text is returned as
\* {name}.table, whatever the name of the placeholder, and no identifier
\* returned contains the stand-in _placeholder.
C25_PlaceholderReversed ==
    (GenerateLineageReturned /\ FaithfulParser) =>
        /\ \A r \in QualifiedReads(unit) :
              Head(r.schema) = "{" => lower(Name(r)) \in outcome.value
        /\ \A t \in outcome.value : ~Contains(t, <<"_", "p", "l", "a", "c", "e", "h", "o", "l", "d", "e", "r">>)

\* the identifier t stands for the reference r: the schema of r, as written
\* or with the stand-in, and the table name of r up to hyphens and underscores
Emits(t, r) ==
    /\ Len(split(t, ".")) = 2
    /\ split(t, ".")[1] \in {lower(r.schema), PlaceholderSub(lower(r.schema))}
    /\ replace(split(t, ".")[2], <<"-">>, <<"_">>) = replace(lower(r.table), <<"-">>, <<"_">>)

\* C26: every identifier returned has its hyphens and underscores where the
\* reference it stands for has them in the text, whatever other hyphens and
\* underscores the text has.
C26_HyphensAsWritten ==
    (GenerateLineageReturned /\ FaithfulParser) =>
        \A t \in outcome.value :
            (\E r \in QualifiedReads(unit) : Emits(t, r)) =>
                \E r \in QualifiedReads(unit) :
                    Emits(t, r) /\ split(t, ".")[2] = lower(r.table)

\* C21: whenever STEP 1 of extract_parent_tables of generate_lineage.py
\* raises, at the parser or in the loop after it has accepted tables, the
\* matches of the STEP 2 patterns on the text are in the returned set.
C21_RaiseFallsThroughToLayer2 ==
    (/\ ex_pc = "returned" /\ mapper = "generate_lineage"
     /\ Layer1Try(content, parser).raised) =>
        Layer2(content) \subseteq outcome.value

\* C22: extract_parent_tables returns for a text what it returns for the
\* text without its comments (the structured parser is given the same text
\* in both calls, so it does the same in both), and a table named only in a
\* comment is not in the set returned.
C22_CommentsNeverChangeResult ==
    (/\ ex_pc = "returned" /\ mapper = "generate_lineage"
     /\ sql_for_lineage(remove_comments(content)) = sql_for_lineage(content)) =>
        /\ extract_parent_tables(remove_comments(content), parser) = outcome
        /\ Contains(content, <<"-", "-", " ", "f", "r", "o", "m", " ", "o", "l", "d", ".", "t", "9", "\n">>) => <<"o", "l", "d", ".", "t", "9">> \notin outcome.value

----------------------------------------------------------------------------
(* Properties of the Mermaid text                                           *)

\* the names a relationship set has as sources or targets
Endpoints(rels) == {pair[1] : pair \in rels} \cup {pair[2] : pair \in rels}

\* C28: parse_mermaid_flowchart on the text generate_mermaid returns for a
\* non-empty relationship set gives the relationships back as its links, one
\* link per relationship, and the distinct endpoints as its nodes, each once.
C28_MermaidRoundTrip ==
    ex_pc = "parsed" =>
        /\ Range(outcome.links) =
              {[source |-> pair[1], target |-> pair[2]] : pair \in relationships}
        /\ Len(outcome.links) = Cardinality(relationships)
        /\ Range(outcome.nodes) =
              {[id |-> name, name |-> name] : name \in Endpoints(relationships)}
        /\ Len(outcome.nodes) = Cardinality(Endpoints(relationships))

\* two relationships with a quoted placeholder name, a name that ends in a
\* hyphen before the arrow and a dotted name were parsed back
C28_Witness ==
    /\ ex_pc = "parsed"
    /\ relationships = { << <<"{", "s", "c", "h", "e", "m", "a", "}", ".", "m", "y", "-", "t">>, <<"a", "-">> >>, << <<"a", "-">>, <<"S", "1", ".", "y", "_", "1">> >> }
    /\ Len(outcome.links) = 2 /\ Len(outcome.nodes) = 3

----------------------------------------------------------------------------
(* Properties of remove_comments                                            *)

----------------------------------------------------------------------------
(* Properties of the tests of a column                                      *)

\* the rows of the column a log entry tested, when the table has the column
ColumnThere(i) == HasColumn(EntryTable(log[i].entry), EntryColumn(log[i].entry))
RowsOf(i) == db.data[EntryTable(log[i].entry)][EntryColumn(log[i].entry)]
ParamsOf(i) == EntryTest(log[i].entry).params
PASSED(i) == log[i].result

\* the result the test of log entry i has on the column content `rows`
ResultOn(i, rows) ==
    _run_default_test([db EXCEPT !.open = TRUE, !.data = OneColumn(rows)],
                      "main", "t", "c", log[i].name, ParamsOf(i)).result

\* C15: for every column content and every list of accepted values, the
\* empty list included, accepted_values returns PASSED if and only if the
\* query does not fail and no non-null value of the column is outside the list.
C15_AcceptedValuesIff ==
    \A i \in DOMAIN log : log[i].name = "accepted_values" =>
        (PASSED(i) <=>
            /\ ColumnThere(i)
            /\ \A k \in 1..Len(RowsOf(i)) :
                  ~RowsOf(i)[k].null => RowsOf(i)[k].text \in ParamsOf(i).values)

\* C16: for every column content and every n >= 0, n = 0 included, max_len
\* returns PASSED if and only if the query does not fail and no value of the
\* column has a string-cast length greater than n.
C16_MaxLenIff ==
    \A i \in DOMAIN log : log[i].name = "max_len" =>
        (PASSED(i) <=>
            /\ ColumnThere(i)
            /\ \A k \in 1..Len(RowsOf(i)) :
                  ~RowsOf(i)[k].null => Len(RowsOf(i)[k].text) <= ParamsOf(i).n)

\* the rows with x put in after the first k of them
InsertAt(rows, k, x) == SubSeq(rows, 1, k) \o << x >> \o SubSeq(rows, k + 1, Len(rows))

\* C17: for every column content, unique returns PASSED if and only if the
\* query does not fail and no value is in more than one row, that is, no
\* group of GROUP BY has COUNT(*) > 1 (the NULL rows are one group); adding a
\* copy of any row to a passing column gives FAILED, and keeping one row of
\* each value of a failing column gives PASSED.
C17_UniqueIff ==
    \A i \in DOMAIN log : log[i].name = "unique" =>
        /\ (PASSED(i) <=>
               /\ ColumnThere(i)
               /\ \A j, k \in 1..Len(RowsOf(i)) : j # k => RowsOf(i)[j] # RowsOf(i)[k])
        /\ (ColumnThere(i) /\ PASSED(i)) =>
               \A k \in 1..Len(RowsOf(i)) : ~ResultOn(i, Append(RowsOf(i), RowsOf(i)[k]))
        /\ (ColumnThere(i) /\ ~PASSED(i)) => ResultOn(i, Dedup(RowsOf(i)))

\* unique failed on a column of three rows in which the value a is twice
C17_Witness ==
    /\ pc = "done" /\ log[1].name = "unique" /\ ~PASSED(1)
    /\ db.data = OneColumn(<< V("a"), V("bb"), V("a") >>)

\* C18: for every column content, no_nulls returns PASSED if and only if the
\* query does not fail and no row of the column is NULL; putting one NULL row
\* anywhere into a passing column gives FAILED.
C18_NoNullsIff ==
    \A i \in DOMAIN log : log[i].name = "no_nulls" =>
        /\ (PASSED(i) <=>
               /\ ColumnThere(i)
               /\ \A k \in 1..Len(RowsOf(i)) : ~RowsOf(i)[k].null)
        /\ (ColumnThere(i) /\ PASSED(i)) =>
               \A k \in 0..Len(RowsOf(i)) : ~ResultOn(i, InsertAt(RowsOf(i), k, NULL))

\* no_nulls passed on a column of three rows
C18_Witness ==
    /\ pc = "done" /\ log[1].name = "no_nulls" /\ PASSED(1)
    /\ ColumnThere(1) /\ Len(RowsOf(1)) = 3

\* C19: a custom test that is among the loaded templates returns PASSED if
\* and only if its template renders, the query rendered for the schema, table
\* and column of the entry under test does not fail, and the query returns no
\* row; a returned row, a rendering error or a query error gives FAILED.
C19_CustomTestIff ==
    \A i \in DOMAIN log : log[i].name \in DOMAIN custom_tests =>
        (PASSED(i) <=>
            /\ custom_tests[log[i].name].renders
            /\ ColumnThere(i)
            /\ \A k \in 1..Len(RowsOf(i)) :
                  RowsOf(i)[k].null \/ RowsOf(i)[k].text \notin custom_tests[log[i].name].selects)

\* the custom test no_b passed on a column of three rows none of which its
\* template selects
C19_Witness ==
    /\ pc = "done" /\ log[1].name = "no_b" /\ PASSED(1)
    /\ ColumnThere(1) /\ Len(RowsOf(1)) = 3 /\ log[1].queries = 1

====
